---- MODULE Spec2Model ----
(***************************************************************************)
(* Model of the MDK core of AI-workbench (apps/ml-services/mdk_core):      *)
(* model factory, metric factory, the Model base class with its nine       *)
(* families, the training orchestrator run_training and preprocess_data.   *)
(*                                                                         *)
(* Python objects are modelled by value: an estimator, a scaler or the     *)
(* content of an artifact file is a record telling whether it was fitted   *)
(* and on which data; configuration objects live in a small heap so that   *)
(* two instances holding the same object are visible as such.              *)
(***************************************************************************)
EXTENDS Integers, Sequences, FiniteSets, TLC

VARIABLES
  inst,        \* inst[i]: the model instance bound to client variable i, or NoInst
  defaultCfg,  \* defaultCfg[f]: the config object created once as the default argument of family f's constructor
  ownCfg,      \* ownCfg[i]: the config object the factory built for instance i from an override
  fs,          \* fs[<<dir, name, file>>]: content of each artifact file that exists
  ret,         \* outcome of the last call
  phase,       \* phase[i]: lifecycle state of instance i (Uninitialized / Trained / Loaded)
  saved,       \* saved[<<dir, name>>]: the answers to inference of the trained instance whose save() wrote the files there
  creates,     \* number of constructor calls made so far
  ppIn,        \* the caller's table as it is after preprocess_data returned
  ppOut,       \* the table passed (arg), the outcome of preprocess_data on it and of applying it again to its own output
  wf,          \* the run of TrainModelWorkflow: its position, the training activity's attempts and result, and the experiments table
  dep,         \* the run of DeployModelWorkflow: its position, the deployment activity's attempts and result, and the deployments table
  fetch,       \* the run of FetchDataWorkflow: the worker it runs on, its position, the fetch attempts and the datasets table
  tracker,     \* the ActivityTracker of the inference service, with the clock and the time of each experiment's last record
  svc,         \* the inference service: the experiments table and models bucket it reads, and its model_cache
  arima        \* an ArimaModel with its series: the fitted results it holds, config.best_params and the file model.pkl

\* The variables of the model lifecycle and the training workflow but the
\* outcome of the last call, and the variables outside them.
coreVars == <<inst, defaultCfg, ownCfg, fs, phase, saved, creates, ppIn, ppOut, wf>>
serviceVars == <<arima, dep, fetch, tracker, svc>>

vars == <<inst, defaultCfg, ownCfg, fs, ret, phase, saved, creates, ppIn, ppOut, wf, serviceVars>>

----------------------------------------------------------------------------
(* Bounds *)

MaxInst == 2
MaxCreates == 2
MaxData == 1
MaxSteps == 1
MaxRows == 2
MaxOverrideKeys == 2

----------------------------------------------------------------------------
(* Names: mdk_core/configs.py lists the model and metric families. *)

ModelNames ==
  {"regression", "regression_time_series", "random_forest",
   "random_forest_time_series", "xgboost", "xgboost_time_series",
   "prophet", "arima", "lstm"}

MetricNames ==
  {"sharpe_ratio", "sortino_ratio", "calmar_ratio", "maximum_drawdown",
   "mdd_duration", "cagr", "volatility", "value_at_risk", "expected_shortfall"}

\* Names no package of mdk_core.models / mdk_core.metrics carries.
BadNames == {"does_not_exist", "base_model", "base_metric", "Lstm", "lstm_", ""}

\* A Python str, character by character.
NameChars ==
  [n \in ModelNames \cup MetricNames \cup BadNames |->
    CASE n = "regression" -> <<"r", "e", "g", "r", "e", "s", "s", "i", "o", "n">>
      [] n = "regression_time_series" -> <<"r", "e", "g", "r", "e", "s", "s", "i", "o", "n", "_", "t", "i", "m", "e", "_", "s", "e", "r", "i", "e", "s">>
      [] n = "random_forest" -> <<"r", "a", "n", "d", "o", "m", "_", "f", "o", "r", "e", "s", "t">>
      [] n = "random_forest_time_series" -> <<"r", "a", "n", "d", "o", "m", "_", "f", "o", "r", "e", "s", "t", "_", "t", "i", "m", "e", "_", "s", "e", "r", "i", "e", "s">>
      [] n = "xgboost" -> <<"x", "g", "b", "o", "o", "s", "t">>
      [] n = "xgboost_time_series" -> <<"x", "g", "b", "o", "o", "s", "t", "_", "t", "i", "m", "e", "_", "s", "e", "r", "i", "e", "s">>
      [] n = "prophet" -> <<"p", "r", "o", "p", "h", "e", "t">>
      [] n = "arima" -> <<"a", "r", "i", "m", "a">>
      [] n = "lstm" -> <<"l", "s", "t", "m">>
      [] n = "sharpe_ratio" -> <<"s", "h", "a", "r", "p", "e", "_", "r", "a", "t", "i", "o">>
      [] n = "sortino_ratio" -> <<"s", "o", "r", "t", "i", "n", "o", "_", "r", "a", "t", "i", "o">>
      [] n = "calmar_ratio" -> <<"c", "a", "l", "m", "a", "r", "_", "r", "a", "t", "i", "o">>
      [] n = "maximum_drawdown" -> <<"m", "a", "x", "i", "m", "u", "m", "_", "d", "r", "a", "w", "d", "o", "w", "n">>
      [] n = "mdd_duration" -> <<"m", "d", "d", "_", "d", "u", "r", "a", "t", "i", "o", "n">>
      [] n = "cagr" -> <<"c", "a", "g", "r">>
      [] n = "volatility" -> <<"v", "o", "l", "a", "t", "i", "l", "i", "t", "y">>
      [] n = "value_at_risk" -> <<"v", "a", "l", "u", "e", "_", "a", "t", "_", "r", "i", "s", "k">>
      [] n = "expected_shortfall" -> <<"e", "x", "p", "e", "c", "t", "e", "d", "_", "s", "h", "o", "r", "t", "f", "a", "l", "l">>
      [] n = "does_not_exist" -> <<"d", "o", "e", "s", "_", "n", "o", "t", "_", "e", "x", "i", "s", "t">>
      [] n = "base_model" -> <<"b", "a", "s", "e", "_", "m", "o", "d", "e", "l">>
      [] n = "base_metric" -> <<"b", "a", "s", "e", "_", "m", "e", "t", "r", "i", "c">>
      [] n = "Lstm" -> <<"L", "s", "t", "m">>
      [] n = "lstm_" -> <<"l", "s", "t", "m", "_">>
      [] n = "" -> <<>>]

Lower == <<"a", "b", "c", "d", "e", "f", "g", "h", "i", "j", "k", "l", "m", "n", "o", "p", "q", "r", "s", "t", "u", "v", "w", "x", "y", "z">>

Upper == <<"A", "B", "C", "D", "E", "F", "G", "H", "I", "J", "K", "L", "M", "N", "O", "P", "Q", "R", "S", "T", "U", "V", "W", "X", "Y", "Z">>


IndexIn(c, s) ==
  IF \E k \in 1..Len(s) : s[k] = c
    THEN CHOOSE k \in 1..Len(s) : s[k] = c
    ELSE 0

\* Variant of CapitalizeChar that leaves the first character as it is.
CapitalizeChar_NoUpper(c, first) ==
  IF IndexIn(c, Upper) > 0 /\ ~first THEN Lower[IndexIn(c, Upper)] ELSE c

\* str.capitalize(): first character upper-cased, all others lower-cased.
CapitalizeChar(c, first) ==
  IF first
    THEN (IF IndexIn(c, Lower) > 0 THEN Upper[IndexIn(c, Lower)] ELSE c)
    ELSE (IF IndexIn(c, Upper) > 0 THEN Lower[IndexIn(c, Upper)] ELSE c)

RECURSIVE CamelFrom(_, _, _)
CamelFrom(s, k, first) ==
  IF k > Len(s) THEN <<>>
  ELSE IF s[k] = "_" THEN CamelFrom(s, k + 1, TRUE)
  ELSE <<CapitalizeChar(s[k], first)>> \o CamelFrom(s, k + 1, FALSE)

\* snake_to_camel: split on "_", capitalize every component, join.
snake_to_camel(s) == CamelFrom(s, 1, TRUE)

ModelSuffix == <<"M", "o", "d", "e", "l">>
MetricSuffix == <<"M", "e", "t", "r", "i", "c">>

\* The class each mdk_core/models/<name>/model.py defines.
ModelClassChars ==
  [n \in ModelNames |->
    CASE n = "regression" -> <<"R", "e", "g", "r", "e", "s", "s", "i", "o", "n", "M", "o", "d", "e", "l">>
      [] n = "regression_time_series" -> <<"R", "e", "g", "r", "e", "s", "s", "i", "o", "n", "T", "i", "m", "e", "S", "e", "r", "i", "e", "s", "M", "o", "d", "e", "l">>
      [] n = "random_forest" -> <<"R", "a", "n", "d", "o", "m", "F", "o", "r", "e", "s", "t", "M", "o", "d", "e", "l">>
      [] n = "random_forest_time_series" -> <<"R", "a", "n", "d", "o", "m", "F", "o", "r", "e", "s", "t", "T", "i", "m", "e", "S", "e", "r", "i", "e", "s", "M", "o", "d", "e", "l">>
      [] n = "xgboost" -> <<"X", "g", "b", "o", "o", "s", "t", "M", "o", "d", "e", "l">>
      [] n = "xgboost_time_series" -> <<"X", "g", "b", "o", "o", "s", "t", "T", "i", "m", "e", "S", "e", "r", "i", "e", "s", "M", "o", "d", "e", "l">>
      [] n = "prophet" -> <<"P", "r", "o", "p", "h", "e", "t", "M", "o", "d", "e", "l">>
      [] n = "arima" -> <<"A", "r", "i", "m", "a", "M", "o", "d", "e", "l">>
      [] n = "lstm" -> <<"L", "s", "t", "m", "M", "o", "d", "e", "l">>]

\* The class each mdk_core/metrics/<name>/metric.py defines.
MetricClassChars ==
  [n \in MetricNames |->
    CASE n = "sharpe_ratio" -> <<"S", "h", "a", "r", "p", "e", "R", "a", "t", "i", "o", "M", "e", "t", "r", "i", "c">>
      [] n = "sortino_ratio" -> <<"S", "o", "r", "t", "i", "n", "o", "R", "a", "t", "i", "o", "M", "e", "t", "r", "i", "c">>
      [] n = "calmar_ratio" -> <<"C", "a", "l", "m", "a", "r", "R", "a", "t", "i", "o", "M", "e", "t", "r", "i", "c">>
      [] n = "maximum_drawdown" -> <<"M", "a", "x", "i", "m", "u", "m", "D", "r", "a", "w", "d", "o", "w", "n", "M", "e", "t", "r", "i", "c">>
      [] n = "mdd_duration" -> <<"M", "d", "d", "D", "u", "r", "a", "t", "i", "o", "n", "M", "e", "t", "r", "i", "c">>
      [] n = "cagr" -> <<"C", "a", "g", "r", "M", "e", "t", "r", "i", "c">>
      [] n = "volatility" -> <<"V", "o", "l", "a", "t", "i", "l", "i", "t", "y", "M", "e", "t", "r", "i", "c">>
      [] n = "value_at_risk" -> <<"V", "a", "l", "u", "e", "A", "t", "R", "i", "s", "k", "M", "e", "t", "r", "i", "c">>
      [] n = "expected_shortfall" -> <<"E", "x", "p", "e", "c", "t", "e", "d", "S", "h", "o", "r", "t", "f", "a", "l", "l", "M", "e", "t", "r", "i", "c">>]

\* importlib.import_module("mdk_core.models.<name>.model") finds a module
\* exactly for the package directories of mdk_core/models.
ModelModuleFound(name) == name \in ModelNames

\* metrics/<name>/metric.py of cagr, calmar_ratio and volatility imports
\* TRADING_DAYS from the package's configs module.
MetricConfigsFound(name) == TRUE

MetricModuleFound(name) == name \in MetricNames /\ MetricConfigsFound(name)

\* getattr(module, class_name) on the module of package `name`.
ModelClassFound(name, cls) == cls = ModelClassChars[name] \/ cls = ModelSuffix
MetricClassFound(name, cls) == cls = MetricClassChars[name] \/ cls = MetricSuffix

----------------------------------------------------------------------------
(* Python values of a configuration override *)

\* Numbers carry four decimals: fp is the value times FixedPoint
\* (LstmConfig.learning_rate = 0.0001 is fp = 1).
FixedPoint == 10000

Num(fp) == [t |-> "num", fp |-> fp]      \* an int or float
NumStr(fp) == [t |-> "str", fp |-> fp]   \* the str of a number, e.g. "30"
BadStr == [t |-> "bad", fp |-> 0]        \* a str that is no number

\* int(v): truncates a number, parses the str of a whole number, raises otherwise.
PyInt(v) ==
  CASE v.t = "num" -> [ok |-> TRUE, v |-> v.fp \div FixedPoint]
    [] v.t = "str" -> IF v.fp % FixedPoint = 0
                        THEN [ok |-> TRUE, v |-> v.fp \div FixedPoint]
                        ELSE [ok |-> FALSE, v |-> 0]
    [] OTHER -> [ok |-> FALSE, v |-> 0]

\* float(v): the number itself, or the number a str spells; raises otherwise.
PyFloat(v) ==
  IF v.t \in {"num", "str"} THEN [ok |-> TRUE, v |-> v.fp] ELSE [ok |-> FALSE, v |-> 0]

OverrideKeys == {"time_steps", "learning_rate", "batch_size", "epochs", "hidden_size"}
NoOverride == [k \in {} |-> BadStr]      \* config=None or {}: `if config` is false

----------------------------------------------------------------------------
(* Configuration objects *)

NA == 0 - 1

ArimaDefaultOrder == <<1, 1, 0>>

LstmConfig ==
  [hidden_size |-> 64, learning_rate |-> 1, batch_size |-> 32, epochs |-> 100,
   early_stopping_patience |-> 10, time_steps |-> 60,
   n_lags |-> NA, best_params |-> <<>>, use_grid_search |-> FALSE]

NoConfigFields ==
  [hidden_size |-> NA, learning_rate |-> NA, batch_size |-> NA, epochs |-> NA,
   early_stopping_patience |-> NA, time_steps |-> NA,
   n_lags |-> NA, best_params |-> <<>>, use_grid_search |-> FALSE]

ArimaConfig == [NoConfigFields EXCEPT !.best_params = ArimaDefaultOrder, !.use_grid_search = TRUE]

LagConfig == [NoConfigFields EXCEPT !.n_lags = 5]

\* <Family>Config(): the configuration every family constructs by default.
DefaultConfig(f) ==
  CASE f = "lstm" -> LstmConfig
    [] f = "arima" -> ArimaConfig
    [] f \in {"regression_time_series", "random_forest_time_series", "xgboost_time_series"} -> LagConfig
    [] OTHER -> NoConfigFields

Has(config, k) == k \in DOMAIN config

\* The overlay create_model applies for "lstm": four keys, each converted.
OverlayOk(config) ==
  /\ Has(config, "time_steps") => PyInt(config["time_steps"]).ok
  /\ Has(config, "learning_rate") => PyFloat(config["learning_rate"]).ok
  /\ Has(config, "batch_size") => PyInt(config["batch_size"]).ok
  /\ Has(config, "epochs") => PyInt(config["epochs"]).ok

\* Variant of the overlay that forgets batch_size.
Overlay_DropBatch(config) ==
  [LstmConfig EXCEPT
     !.time_steps = IF Has(config, "time_steps") THEN PyInt(config["time_steps"]).v ELSE @,
     !.learning_rate = IF Has(config, "learning_rate") THEN PyFloat(config["learning_rate"]).v ELSE @,
     !.epochs = IF Has(config, "epochs") THEN PyInt(config["epochs"]).v ELSE @]

Overlay(config) ==
  [LstmConfig EXCEPT
     !.time_steps = IF Has(config, "time_steps") THEN PyInt(config["time_steps"]).v ELSE @,
     !.learning_rate = IF Has(config, "learning_rate") THEN PyFloat(config["learning_rate"]).v ELSE @,
     !.batch_size = IF Has(config, "batch_size") THEN PyInt(config["batch_size"]).v ELSE @,
     !.epochs = IF Has(config, "epochs") THEN PyInt(config["epochs"]).v ELSE @]

----------------------------------------------------------------------------
(* Estimators, scalers and artifact files *)

DataIds == 1..MaxData
Dirs == {"trained_models", "out"}
Files == {"model.pkl", "model.pt", "scaler.pkl"}

Obj(kind, data, epoch, order) == [kind |-> kind, data |-> data, epoch |-> epoch, order |-> order]
Absent == Obj("absent", 0, 0, <<>>)     \* no such file
PyNone == Obj("None", 0, 0, <<>>)       \* the Python value None
Unfit == Obj("unfit", 0, 0, <<>>)       \* an estimator or scaler object that was never fitted
Partial == Obj("partial", 0, 0, <<>>)   \* a Prophet object whose fit() raised
Rand == Obj("rand", 0, 0, <<>>)         \* the LSTM network as its constructor initialises it
Fitted(d) == Obj("fit", d, 0, <<>>)     \* fitted on data d
FittedOrder(d, o) == Obj("fit", d, 0, o)    \* ARIMA results fitted on d with order o
Weights(d, e) == Obj("fit", d, e, <<>>)     \* LSTM weights after e epochs on d

LagFamilies == {"regression_time_series", "random_forest_time_series", "xgboost_time_series"}
SklearnFamilies == {"regression", "regression_time_series", "random_forest", "random_forest_time_series"}
XgbFamilies == {"xgboost", "xgboost_time_series"}
NoForecastFamilies == SklearnFamilies \cup XgbFamilies

\* self.model as each constructor leaves it.
CtorModel(f) ==
  CASE f \in SklearnFamilies -> Unfit
    [] f = "prophet" -> Unfit
    [] f = "lstm" -> Rand
    [] OTHER -> PyNone

\* self.scaler as each constructor leaves it.
CtorScaler(f) == IF f \in {"arima", "prophet"} THEN PyNone ELSE Unfit

\* Model.__init__ plus the family's __init__; cfgRef tells which config object it holds.
NewModel(f, cfgRef, config) ==
  [family |-> f, model_name |-> f,
   model_type |-> IF f = "lstm" THEN "pytorch" ELSE "pkl",
   save_dir |-> "trained_models",
   model |-> CtorModel(f), scaler |-> CtorScaler(f),
   cfg |-> cfgRef, n_lags |-> config.n_lags]

NoInst ==
  [family |-> "", model_name |-> "", model_type |-> "", save_dir |-> "",
   model |-> PyNone, scaler |-> PyNone, cfg |-> "", n_lags |-> NA]

ModelFile(m) == IF m.model_type = "pytorch" THEN "model.pt" ELSE "model.pkl"
ModelPath(m) == <<m.save_dir, m.model_name, ModelFile(m)>>
ScalerPath(m) == <<m.save_dir, m.model_name, "scaler.pkl">>

\* The files one save() call writes. Model.save (pkl): model.pkl always,
\* scaler.pkl when self.scaler is truthy. LstmModel.save: model.pt and
\* scaler.pkl, each when the attribute is not None.
SaveWrites(m) ==
  IF m.model_type = "pytorch"
    THEN (IF m.model # PyNone THEN {ModelPath(m)} ELSE {})
         \cup (IF m.scaler # PyNone THEN {ScalerPath(m)} ELSE {})
    ELSE {ModelPath(m)} \cup (IF m.scaler # PyNone THEN {ScalerPath(m)} ELSE {})

\* Content of the file at path p, Absent when there is none.
FileAt(f, p) == IF p \in DOMAIN f THEN f[p] ELSE Absent

SaveFs(m, f) ==
  [p \in DOMAIN f \cup SaveWrites(m) |->
     IF p \in SaveWrites(m)
       THEN (IF p = ModelPath(m) THEN m.model ELSE m.scaler)
       ELSE f[p]]

\* Variant of LoadResult in which LstmModel.load also returns when model.pt is absent.
LoadResult_Lenient(m, f) ==
  IF FileAt(f, ModelPath(m)) = Absent
    THEN [m |-> m, restored |-> FALSE, status |-> "ok"]
    ELSE [m |-> [m EXCEPT !.model = f[ModelPath(m)],
                          !.scaler = IF FileAt(f, ScalerPath(m)) # Absent THEN f[ScalerPath(m)] ELSE @],
          restored |-> TRUE, status |-> "ok"]

\* Model.load (pkl) and LstmModel.load. Model.load catches every exception
\* and returns; LstmModel.load re-raises.
LoadResult(m, f) ==
  IF FileAt(f, ModelPath(m)) = Absent
    THEN [m |-> m, restored |-> FALSE,
          status |-> IF m.model_type = "pytorch" THEN "FileNotFoundError" ELSE "ok"]
    ELSE [m |-> [m EXCEPT !.model = f[ModelPath(m)],
                          !.scaler = IF FileAt(f, ScalerPath(m)) # Absent THEN f[ScalerPath(m)] ELSE @],
          restored |-> TRUE, status |-> "ok"]

----------------------------------------------------------------------------
(* Training *)

Infinity == 1000000    \* float("inf")
NaN == 0 - 2           \* a loss that compares false with everything
BigLoss == 1000        \* validation loss before the first epoch of a scenario

\* val_loss < best_val_loss on floats.
Less(a, b) == a # NaN /\ b # NaN /\ a < b

\* The validation loss the network reaches at the end of epoch e (1-based):
\* nan: never a number; improve: strictly decreasing; plateau: decreasing
\* up to epoch k and constant afterwards; zigzag: a new low at every k-th
\* epoch and back to the first value in between.
LossScenarios ==
  {[kind |-> "nan", k |-> 0], [kind |-> "improve", k |-> 0], [kind |-> "plateau", k |-> 2],
   [kind |-> "zigzag", k |-> 3]}

ValLoss(scen, e) ==
  CASE scen.kind = "nan" -> NaN
    [] scen.kind = "improve" -> BigLoss - e
    [] scen.kind = "zigzag" -> IF e % scen.k = 0 THEN BigLoss - e ELSE BigLoss
    [] OTHER -> BigLoss - (IF e < scen.k THEN e ELSE scen.k)

\* Variant of the loop body that does not reset patience_counter on an
\* improving epoch.
EpochStep_NoReset(s, epochs, patience, scen) ==
  IF s.done \/ s.epoch >= epochs THEN [s EXCEPT !.done = TRUE]
  ELSE LET val_loss == ValLoss(scen, s.epoch + 1) IN
    IF Less(val_loss, s.best_val_loss)
      THEN [s EXCEPT !.epoch = @ + 1, !.best_val_loss = val_loss, !.savedAt = s.epoch + 1]
      ELSE [s EXCEPT !.epoch = @ + 1, !.patience_counter = @ + 1,
                     !.done = (s.patience_counter + 1 >= patience)]

\* One pass of the body of `for epoch in range(self.config.epochs)`; the
\* loop state is the epoch index, best_val_loss, patience_counter, the epoch
\* of the last self.save() (0: never) and whether the loop has ended.
EpochStep(s, epochs, patience, scen) ==
  IF s.done \/ s.epoch >= epochs THEN [s EXCEPT !.done = TRUE]
  ELSE LET val_loss == ValLoss(scen, s.epoch + 1) IN
    IF Less(val_loss, s.best_val_loss)
      THEN [s EXCEPT !.epoch = @ + 1, !.best_val_loss = val_loss,
                     !.patience_counter = 0, !.savedAt = s.epoch + 1]
      ELSE [s EXCEPT !.epoch = @ + 1, !.patience_counter = @ + 1,
                     !.done = (s.patience_counter + 1 >= patience)]

\* Eight passes of the loop body.
EightEpochs(s, epochs, patience, scen) ==
  LET s1 == EpochStep(s, epochs, patience, scen)
      s2 == EpochStep(s1, epochs, patience, scen)
      s3 == EpochStep(s2, epochs, patience, scen)
      s4 == EpochStep(s3, epochs, patience, scen)
      s5 == EpochStep(s4, epochs, patience, scen)
      s6 == EpochStep(s5, epochs, patience, scen)
      s7 == EpochStep(s6, epochs, patience, scen)
  IN EpochStep(s7, epochs, patience, scen)

RECURSIVE RunEpochs(_, _, _, _)
RunEpochs(s, epochs, patience, scen) ==
  IF s.done THEN s ELSE RunEpochs(EightEpochs(s, epochs, patience, scen), epochs, patience, scen)

\* The epoch loop of LstmModel.train: ran = epochs executed, savedAt = the
\* epoch of the last self.save() (0: save was never called).
EpochLoopRun(epochs, patience, scen) ==
  LET s == RunEpochs([epoch |-> 0, best_val_loss |-> Infinity, patience_counter |-> 0,
                      savedAt |-> 0, done |-> FALSE], epochs, patience, scen)
  IN [ran |-> s.epoch, savedAt |-> s.savedAt]

\* The loop under the default epochs and patience, run once per scenario.
DefaultEpochLoop ==
  [scen \in LossScenarios |->
     EpochLoopRun(LstmConfig.epochs, LstmConfig.early_stopping_patience, scen)]

EpochLoop(epochs, patience, scen) ==
  IF /\ epochs = LstmConfig.epochs
     /\ patience = LstmConfig.early_stopping_patience
     /\ scen \in LossScenarios
    THEN DefaultEpochLoop[scen]
    ELSE EpochLoopRun(epochs, patience, scen)

\* ARIMA candidate orders in the iteration order of grid_search_arima,
\* for p_values = [0, 1], d_values = [0, 1], q_values = [0, 1, 2].
Candidates ==
  <<<<0, 0, 0>>, <<0, 0, 1>>, <<0, 0, 2>>, <<0, 1, 0>>, <<0, 1, 1>>, <<0, 1, 2>>,
    <<1, 0, 0>>, <<1, 0, 1>>, <<1, 0, 2>>, <<1, 1, 0>>, <<1, 1, 1>>, <<1, 1, 2>>>>

FitFails == 0 - 1      \* ARIMA(...).fit() raised for this candidate

\* What fitting each candidate gives: candidate `winner` has AIC 1, all
\* others AIC 2; winner = 0: every fit raises; failFirst: the first
\* candidate's fit raises; a winner past the last candidate: every fitted
\* candidate has the same AIC.
AicOf(scen, k) ==
  IF scen.winner = 0 THEN FitFails
  ELSE IF k = scen.winner THEN 1
  ELSE IF scen.failFirst /\ k = 1 THEN FitFails
  ELSE 2

RECURSIVE GridLoop(_, _, _, _)
GridLoop(k, scen, best_aic, best_order) ==
  IF k > Len(Candidates) THEN best_order
  ELSE LET aic == AicOf(scen, k) IN
    IF aic # FitFails /\ aic < best_aic
      THEN GridLoop(k + 1, scen, aic, Candidates[k])
      ELSE GridLoop(k + 1, scen, best_aic, best_order)

\* grid_search_arima: the value it assigns to self.config.best_params (<<>> is None).
grid_search_arima(scen) == GridLoop(1, scen, Infinity, <<>>)

Outcome(m, c, f, status, wrote) == [m |-> m, c |-> c, fs |-> f, status |-> status, wrote |-> wrote]

\* train() of the four scikit-learn families and the two XGBoost families:
\* fit the scaler, fit the estimator, save.
TrainSklearn(m, c, f, d, fate) ==
  CASE fate = "early" -> Outcome(m, c, f, "ValueError", {})
    [] fate = "late" -> Outcome([m EXCEPT !.scaler = Fitted(d)], c, f, "ValueError", {})
    [] OTHER ->
         LET m2 == [m EXCEPT !.scaler = Fitted(d), !.model = Fitted(d)]
         IN Outcome(m2, c, SaveFs(m2, f), "ok", SaveWrites(m2))

\* ProphetModel.train: Prophet.fit refuses an object that was fitted before.
TrainProphet(m, c, f, d, fate) ==
  IF m.model.kind \in {"fit", "partial"} THEN Outcome(m, c, f, "Exception", {})
  ELSE CASE fate = "early" -> Outcome(m, c, f, "ValueError", {})
         [] fate = "late" -> Outcome([m EXCEPT !.model = Partial], c, f, "Exception", {})
         [] OTHER ->
              LET m2 == [m EXCEPT !.model = Fitted(d)]
              IN Outcome(m2, c, SaveFs(m2, f), "ok", SaveWrites(m2))

\* ArimaModel.train: ADF test, grid search writing config.best_params,
\* final fit with config.best_params, save.
TrainArima(m, c, f, d, fate, scen) ==
  IF fate = "early" THEN Outcome(m, c, f, "ValueError", {})
  ELSE LET c2 == IF c.use_grid_search
                   THEN [c EXCEPT !.best_params = grid_search_arima(scen)]
                   ELSE c
       IN IF c2.best_params = <<>>
            THEN Outcome(m, c2, f, "TypeError", {})
          ELSE IF fate = "late"
            THEN Outcome([m EXCEPT !.model = Unfit], c2, f, "Exception", {})
          ELSE LET m2 == [m EXCEPT !.model = FittedOrder(d, c2.best_params)]
               IN Outcome(m2, c2, SaveFs(m2, f), "ok", SaveWrites(m2))

\* LstmModel.train: fit the scaler, run the epoch loop, saving on every
\* improving epoch.
TrainLstm(m, c, f, d, fate, scen) ==
  CASE fate = "early" -> Outcome(m, c, f, "TypeError", {})
    [] fate = "late" -> Outcome([m EXCEPT !.scaler = Fitted(d)], c, f, "RuntimeError", {})
    [] OTHER ->
         LET loop == EpochLoop(c.epochs, c.early_stopping_patience, scen)
             best == [m EXCEPT !.scaler = Fitted(d), !.model = Weights(d, loop.savedAt)]
             last == [m EXCEPT !.scaler = Fitted(d),
                               !.model = IF loop.ran = 0 THEN @ ELSE Weights(d, loop.ran)]
         IN IF loop.savedAt = 0
              THEN Outcome(last, c, f, "ok", {})
              ELSE Outcome(last, c, SaveFs(best, f), "ok", SaveWrites(best))

\* model.train(data) for instance m holding config c, with files f.
\* scen tells how the numerical routines behave on that data: the validation
\* losses for LSTM, the candidates' AIC for ARIMA.
TrainOutcome(m, c, f, d, fate, scen) ==
  CASE m.family \in SklearnFamilies \cup XgbFamilies -> TrainSklearn(m, c, f, d, fate)
    [] m.family = "prophet" -> TrainProphet(m, c, f, d, fate)
    [] m.family = "arima" -> TrainArima(m, c, f, d, fate, scen)
    [] OTHER -> TrainLstm(m, c, f, d, fate, scen)

----------------------------------------------------------------------------
(* Inference and forecast *)

\* Row counts of the tables handed to inference / forecast: none, more than
\* n_lags = 5, more than time_steps = 60.
InputLens == {0, 6, 61}
Steps == 1..MaxSteps

Val(kind, est, scaler, undiff, rows, npred, marker) ==
  [kind |-> kind, est |-> est, scaler |-> scaler, undiff |-> undiff,
   rows |-> rows, npred |-> npred, marker |-> marker]
NoVal == Val("none", PyNone, PyNone, FALSE, 0, 0, "")
Result(status, val) == [status |-> status, val |-> val]
Raise(status) == Result(status, NoVal)
Pred(m, undiff, rows, npred) == Result("ok", Val("pred", m.model, m.scaler, undiff, rows, npred, ""))

\* self.scaler.transform(...): check_is_fitted comes first.
ScalerStatus(m) ==
  CASE m.scaler.kind = "fit" -> "ok"
    [] m.scaler = PyNone -> "AttributeError"
    [] OTHER -> "NotFittedError"

\* self.model.predict(...) of a scikit-learn estimator or an XGBoost booster.
PredictStatus(m) ==
  CASE m.model.kind = "fit" -> "ok"
    [] m.model = PyNone -> "AttributeError"
    [] OTHER -> "NotFittedError"

\* inference() of the six regression / forest / boosting families.
InferTabular(m, rows) ==
  LET usable == IF m.family \in LagFamilies
                  THEN (IF rows > m.n_lags THEN rows - m.n_lags ELSE 0)
                  ELSE rows
  IN IF m.family \in LagFamilies /\ usable = 0 THEN Raise("ValueError")
     ELSE IF ScalerStatus(m) # "ok" THEN Raise(ScalerStatus(m))
     ELSE IF usable = 0 THEN Raise("ValueError")
     ELSE IF PredictStatus(m) # "ok" THEN Raise(PredictStatus(m))
     ELSE Pred(m, FALSE, rows, usable)

\* Prophet.predict / make_future_dataframe on the held Prophet object.
ProphetStatus(m) ==
  CASE m.model.kind = "fit" -> "ok"
    [] m.model = PyNone -> "AttributeError"
    [] m.model = Partial -> "KeyError"
    [] OTHER -> "Exception"

InferProphet(m, rows) ==
  IF ProphetStatus(m) # "ok" THEN Raise(ProphetStatus(m))
  ELSE IF rows = 0 THEN Raise("ValueError")
  ELSE Pred(m, FALSE, rows, rows)

\* ArimaModel.inference: guard on self.model, forecast len(input) steps,
\* reverse the differencing when config.best_params[1] > 0.
InferArima(m, c, rows) ==
  IF m.model = PyNone THEN Raise("ValueError")
  ELSE IF m.model.kind # "fit" THEN Raise("AttributeError")
  ELSE IF rows = 0 THEN Raise("ValueError")
  ELSE IF c.best_params = <<>> THEN Raise("TypeError")
  ELSE Pred(m, c.best_params[2] > 0, rows, rows)

\* LstmModel.inference: scale, window with config.time_steps, predict.
InferLstm(m, c, rows) ==
  IF ScalerStatus(m) # "ok" THEN Raise(ScalerStatus(m))
  ELSE IF rows = 0 THEN Raise("ValueError")
  ELSE IF rows - c.time_steps <= 0 THEN Raise("ValueError")
  ELSE Pred(m, FALSE, rows, rows - c.time_steps)

\* model.inference(input_data) for an input of `rows` rows.
InferenceResult(m, c, rows) ==
  CASE m.family \in NoForecastFamilies -> InferTabular(m, rows)
    [] m.family = "prophet" -> InferProphet(m, rows)
    [] m.family = "arima" -> InferArima(m, c, rows)
    [] OTHER -> InferLstm(m, c, rows)

\* model.forecast(steps) (for LSTM: forecast(steps, last_known_data) with `rows` rows).
ForecastResult(m, c, steps, rows) ==
  CASE m.family \in {"regression", "regression_time_series"} ->
         Result("ok", Val("placeholder", PyNone, PyNone, FALSE, 0, steps, "N/A"))
    [] m.family \in NoForecastFamilies \ {"regression", "regression_time_series"} ->
         Result("ok", Val("placeholder", PyNone, PyNone, FALSE, 0, steps, "0"))
    [] m.family = "prophet" ->
         IF ProphetStatus(m) # "ok" THEN Raise(ProphetStatus(m))
         ELSE Pred(m, FALSE, 0, steps)
    [] m.family = "arima" ->
         IF m.model = PyNone THEN Raise("ValueError")
         ELSE IF m.model.kind # "fit" THEN Raise("AttributeError")
         ELSE Pred(m, FALSE, 0, steps)
    [] OTHER ->
         IF rows < c.time_steps THEN Raise("ValueError")
         ELSE IF ScalerStatus(m) # "ok" THEN Raise(ScalerStatus(m))
         ELSE Pred(m, FALSE, rows, steps)

----------------------------------------------------------------------------
(* preprocess_data *)

RequiredColumns == <<"open", "high", "low", "volume", "close">>
Required == {RequiredColumns[k] : k \in 1..Len(RequiredColumns)}
Columns == Required \cup {"date"}

\* A DataFrame: the columns it has, the dtype of each (numeric or object)
\* and its rows; a row keeps its index label and, per column, whether the
\* cell is null, a number or a str.
Table(cols, numeric, rows) == [cols |-> cols, numeric |-> numeric, rows |-> rows]

RECURSIVE SelectRows(_, _)
SelectRows(rows, keep) ==
  IF rows = <<>> THEN <<>>
  ELSE IF keep[1] THEN <<Head(rows)>> \o SelectRows(Tail(rows), Tail(keep))
  ELSE SelectRows(Tail(rows), Tail(keep))

\* Variant of dropna that looks at every column, not only at the subset.
dropna_AllColumns(t, subset) ==
  [t EXCEPT !.rows =
     SelectRows(t.rows, [k \in 1..Len(t.rows) |->
                           \A col \in t.cols : t.rows[k].cells[col] # "null"])]

\* DataFrame.dropna(subset=...): a new frame with the rows having no null in the subset.
dropna(t, subset) ==
  [t EXCEPT !.rows =
     SelectRows(t.rows, [k \in 1..Len(t.rows) |->
                           \A col \in subset : t.rows[k].cells[col] # "null"])]

\* preprocess_data(data): the outcome, the table returned and the caller's
\* table after the call (dropna returns a new frame, the local name is rebound).
preprocess_data(t) ==
  IF \E col \in Required : col \notin t.cols
    THEN [status |-> "ValueError", out |-> t, input |-> t]
  ELSE LET data == dropna(t, Required) IN
    IF \E col \in Required : ~data.numeric[col]
      THEN [status |-> "ValueError", out |-> data, input |-> t]
      ELSE [status |-> "ok", out |-> data, input |-> t]

----------------------------------------------------------------------------
(* Lag features *)

\* Rows of a price frame: the default n_lags = 5 and two more.
MaxLagRows == 7
MaxLags == 2

Missing == 0 - 1       \* a NaN cell

\* A price frame as the lag-based families see it: per row the index label,
\* the close value, whether one of the other columns of the row is NaN, and
\* the lag_1 .. lag_n cells once they were added. pos is the row's position
\* in the frame the caller passed.
LagRow(id, pos, close, other) == [id |-> id, pos |-> pos, close |-> close, other |-> other, lag |-> <<>>]

\* data[target_col].shift(lag): the value `lag` positions earlier, NaN at the top.
shift(data, lag) == [i \in 1..Len(data) |-> IF i - lag >= 1 THEN data[i - lag].close ELSE Missing]

NoNaN(row) ==
  /\ row.close # Missing
  /\ row.other # Missing
  /\ \A k \in 1..Len(row.lag) : row.lag[k] # Missing

\* create_lag_features(data, "close", n_lags): copy, one shifted column per
\* lag, then dropna() over every column of the frame.
create_lag_features(data, n_lags) ==
  LET df == [i \in 1..Len(data) |->
               [data[i] EXCEPT !.lag = [k \in 1..n_lags |-> shift(data, k)[i]]]]
  IN SelectRows(df, [i \in 1..Len(df) |-> NoNaN(df[i])])

\* The cell of the result frame's prediction column: NaN, or the number the
\* estimator est gave for the features of row `from` of the lagged frame.
NoPrediction == [kind |-> "NaN", est |-> PyNone, from |-> LagRow(0, 0, Missing, Missing)]
Prediction(est, row) == [kind |-> "number", est |-> est, from |-> row]

RECURSIVE Flatten(_)
Flatten(seqs) == IF seqs = <<>> THEN <<>> ELSE Head(seqs) \o Flatten(Tail(seqs))

\* pd.DataFrame(index=left).merge(right, left_index=True, right_index=True,
\* how="left"): the left rows in order, each once per right row carrying the
\* same index label, or once with NaN when no right row carries it.
merge_left(left, right) ==
  Flatten([i \in 1..Len(left) |->
             LET hits == SelectRows(right, [j \in 1..Len(right) |-> right[j].id = left[i].id])
             IN IF hits = <<>>
                  THEN <<[id |-> left[i].id, prediction |-> NoPrediction]>>
                  ELSE [j \in 1..Len(hits) |-> [id |-> left[i].id, prediction |-> hits[j].prediction]]])

\* inference(input_data) of the three lag-based families on a frame:
\* lag features, the emptiness check, scaler.transform, predict, and the
\* merge of the predictions back onto the input's index.
InferLagFrame(m, input_data) ==
  LET input_data_with_lags == create_lag_features(input_data, m.n_lags)
      predictions_df == [j \in 1..Len(input_data_with_lags) |->
                           [id |-> input_data_with_lags[j].id,
                            prediction |-> Prediction(m.model, input_data_with_lags[j])]]
  IN IF Len(input_data_with_lags) = 0
       THEN [status |-> "ValueError", predicted |-> FALSE, result |-> <<>>]
     ELSE IF ScalerStatus(m) # "ok"
       THEN [status |-> ScalerStatus(m), predicted |-> FALSE, result |-> <<>>]
     ELSE IF PredictStatus(m) # "ok"
       THEN [status |-> PredictStatus(m), predicted |-> FALSE, result |-> <<>>]
     ELSE [status |-> "ok", predicted |-> TRUE,
           result |-> merge_left(input_data, predictions_df)]

----------------------------------------------------------------------------
(* LSTM windows *)

MaxRollout == 4

ResampleAbove == 1000      \* `if len(data_copy) > 1000`
Minute == 60               \* seconds
Hour == 3600
Day == 86400

\* A dated price frame handed to the LSTM: its number of rows, the number
\* of distinct hours its rows fall in, and the seconds between two rows.
\* The row at position p (1-based) is dated p * spacing; a cell is named by
\* its position.
Frame(len, hours, spacing) == [len |-> len, hours |-> hours, spacing |-> spacing]
DateAt(data, p) == p * data.spacing

\* data_copy after the date handling: frames of more than 1000 rows are
\* resampled to one row per hour, others are kept.
Resampled(frame) ==
  IF frame.len > ResampleAbove THEN Frame(frame.hours, frame.hours, Hour) ELSE frame

\* _prepare_data(data): the windows x as (first, last) positions; window i
\* is followed by the target at position i + time_steps.
prepare_data(len, time_steps) ==
  [i \in 1..(IF len > time_steps THEN len - time_steps ELSE 0) |->
     [first |-> i, last |-> i + time_steps - 1]]

NoFrameResult(status, msg) ==
  [status |-> status, msg |-> msg, predicted |-> FALSE, rows |-> <<>>, fed |-> <<>>]

\* LstmModel.inference(input_data) on a frame: scale, build the windows,
\* refuse when there is none, predict, date the predictions.
InferLstmFrame(m, c, input_data) ==
  LET data_copy == Resampled(input_data)
      time_steps == c.time_steps
      x_test == prepare_data(data_copy.len, time_steps)
      prediction_dates ==
        [k \in 1..(IF data_copy.len > time_steps THEN data_copy.len - time_steps ELSE 0) |->
           DateAt(data_copy, time_steps + k)]
  IN IF ScalerStatus(m) # "ok" THEN NoFrameResult(ScalerStatus(m), "scaler")
     ELSE IF data_copy.len = 0 THEN NoFrameResult("ValueError", "empty array")
     ELSE IF Len(x_test) = 0 THEN NoFrameResult("ValueError", "Not enough data")
     ELSE [status |-> "ok", msg |-> "", predicted |-> TRUE,
           rows |-> [k \in 1..Len(x_test) |->
                       [date |-> prediction_dates[k], est |-> m.model, window |-> x_test[k]]],
           fed |-> <<>>]

\* The frequency forecast() dates its rows with, from the first two rows.
forecast_freq(data_copy) ==
  IF data_copy.len > ResampleAbove THEN Hour
  ELSE IF data_copy.len > 1
    THEN (CASE data_copy.spacing <= 5 * Minute -> 5 * Minute
            [] data_copy.spacing > 5 * Minute /\ data_copy.spacing <= 15 * Minute -> 15 * Minute
            [] data_copy.spacing > 15 * Minute /\ data_copy.spacing <= 30 * Minute -> 30 * Minute
            [] data_copy.spacing > 30 * Minute /\ data_copy.spacing <= Hour -> Hour
            [] OTHER -> Day)
  ELSE Day

RECURSIVE Rollout(_, _, _, _)

\* Variant of the rollout that appends the prediction without dropping the
\* window's first cell.
Rollout_NoSlide(current_sequence, k, steps, fed) ==
  [j \in 1..steps |->
     current_sequence \o [x \in 1..(j - 1) |-> <<"prediction", x - 1>>]]

\* The rollout loop of forecast(): predict from the current window, drop
\* the window's first cell, append the prediction. A cell is an observed
\* scaled close <<"close", position>> or a prediction <<"prediction", k>>
\* (k from 0). fed[k + 1] is the window the network saw for prediction k.
Rollout(current_sequence, k, steps, fed) ==
  IF k = steps THEN fed
  ELSE Rollout(Tail(current_sequence) \o <<<<"prediction", k>>>>, k + 1, steps,
               Append(fed, current_sequence))

\* LstmModel.forecast(steps, last_known_data) on a frame; with steps = 0
\* scaler.inverse_transform refuses the empty array of predictions.
ForecastLstmFrame(m, c, steps, last_known_data) ==
  LET data_copy == Resampled(last_known_data)
      time_steps == c.time_steps
      last_sequence == [j \in 1..time_steps |-> <<"close", data_copy.len - time_steps + j>>]
  IN IF data_copy.len < time_steps THEN NoFrameResult("ValueError", "Not enough data")
     ELSE IF ScalerStatus(m) # "ok" THEN NoFrameResult(ScalerStatus(m), "scaler")
     ELSE IF data_copy.len = 0 THEN NoFrameResult("ValueError", "empty array")
     ELSE IF steps = 0 THEN NoFrameResult("ValueError", "empty array")
     ELSE [status |-> "ok", msg |-> "", predicted |-> TRUE,
           rows |-> [j \in 1..steps |->
                       [date |-> DateAt(data_copy, data_copy.len) + 1 + (j - 1) * forecast_freq(data_copy),
                        est |-> m.model, k |-> j - 1]],
           fed |-> Rollout(last_sequence, 0, steps, <<>>)]

----------------------------------------------------------------------------
(* Factories *)

\* ModelFactory.create_model: "default" / "own" tell which config object the
\* new instance holds; every exception leaves as ValueError.
create_model(name, config) ==
  IF ~ModelModuleFound(name) THEN "ValueError"
  ELSE IF ~ModelClassFound(name, snake_to_camel(NameChars[name]) \o ModelSuffix) THEN "ValueError"
  ELSE IF DOMAIN config # {} /\ name = "lstm"
    THEN (IF OverlayOk(config) THEN "own" ELSE "ValueError")
  ELSE "default"

\* MetricFactory.create_metric.
create_metric(name) ==
  IF ~MetricModuleFound(name) THEN "ValueError"
  ELSE IF ~MetricClassFound(name, snake_to_camel(NameChars[name]) \o MetricSuffix) THEN "ValueError"
  ELSE "ok"

----------------------------------------------------------------------------
(* The training workflow (workflows/training_workflow.py) *)

MaxUpdateFailures == 2
MaxExperiments == 2

Experiments == 1..MaxExperiments
NoKey == <<>>          \* None / NULL

\* RetryPolicy(maximum_attempts=1) of the training activity.
TrainMaxAttempts == 1

\* The key _train_model builds for the uploaded model artifact:
\* f"{user_id}/{project_id}/{experiment_id}/model{model_ext}".
ArtifactKey(experiment_id, model_ext) == <<experiment_id, "model", model_ext>>

\* UpdateExperimentParams(experiment_id, status, model_artifact_s3_key=None)
UpdateExperimentParams(experiment_id, status, model_artifact_s3_key) ==
  [experiment_id |-> experiment_id, status |-> status,
   model_artifact_s3_key |-> model_artifact_s3_key]

\* Variant of the database write that never sets the artifact key.
update_experiment_status_NoKey(db, params) ==
  [db EXCEPT ![params.experiment_id].status = params.status]

\* The committed UPDATE of update_experiment_status_activity: status, and
\* the artifact key when the parameter holds one, on the row of that id.
update_experiment_status(db, params) ==
  IF params.model_artifact_s3_key # NoKey
    THEN [db EXCEPT ![params.experiment_id] =
            [status |-> params.status, model_artifact_s3_key |-> params.model_artifact_s3_key]]
    ELSE [db EXCEPT ![params.experiment_id].status = params.status]

\* The experiments table before any workflow ran, the record of a training
\* activity not yet scheduled, and the workflow worker before its first run.
NoRows == [x \in Experiments |-> [status |-> "pending", model_artifact_s3_key |-> NoKey]]
NoActivity == [attempts |-> 0, trained |-> "no", training_result |-> NoKey]
NoRun ==
  [pc |-> "idle", experiment_id |-> 0, failures |-> 0,
   runs |-> [x \in Experiments |-> NoActivity], db |-> NoRows]

-----------------------------------------------------------------------------
(* The deployment workflow (workflows/deployment_workflow.py) *)

MaxDeployments == 2

Deployments == 1..MaxDeployments
NoUrl == <<>>          \* None / NULL

\* RetryPolicy(maximum_attempts=1) of the deployment activity.
DeployMaxAttempts == 1

\* UpdateDeploymentParams(deployment_id, status, modal_endpoint_url=None)
UpdateDeploymentParams(deployment_id, status, modal_endpoint_url) ==
  [deployment_id |-> deployment_id, status |-> status,
   modal_endpoint_url |-> modal_endpoint_url]

\* Variant of the database write that never stores the endpoint URL.
update_deployment_status_NoUrl(db, params) ==
  [db EXCEPT ![params.deployment_id].status = params.status]

\* The committed UPDATE of update_deployment_status_activity: status, and
\* the endpoint URL when the parameter holds one, on the row of that id.
update_deployment_status(db, params) ==
  IF params.modal_endpoint_url # NoUrl
    THEN [db EXCEPT ![params.deployment_id] =
            [status |-> params.status, modal_endpoint_url |-> params.modal_endpoint_url]]
    ELSE [db EXCEPT ![params.deployment_id].status = params.status]

\* The record of a deployment run not yet started, and the worker before
\* its first run; the server action created each row as 'deploying'.
NoDeployment == [attempts |-> 0, deployed |-> "no", endpoint_url |-> NoUrl, ended |-> "no"]
NoDeployRun ==
  [pc |-> "idle", deployment_id |-> 0, failures |-> 0,
   runs |-> [x \in Deployments |-> NoDeployment],
   db |-> [x \in Deployments |-> [status |-> "deploying", modal_endpoint_url |-> NoUrl]]]

-----------------------------------------------------------------------------
(* The data fetching workflow (workflows/data_fetching_workflow.py) *)

MaxFetchRuns == 2

\* RetryPolicy(maximum_attempts=2) of the fetch activity.
FetchMaxAttempts == 2

\* Worker(..., activities=[...]) of run_worker.start_worker and of
\* temporal_server.start_worker.
Workers == {"run_worker", "temporal_server"}
Registered(worker) ==
  {"train_model_activity", "fetch_data_activity", "update_experiment_status_activity",
   "create_dataset_record_activity", "update_deployment_status_activity",
   "deploy_model_activity"}

\* The key fetch_data_activity returns:
\* f"{user_id}/{project_id}/datasets/{filename}".
DatasetKey(symbol) == <<"datasets", symbol>>

\* CreateDatasetRecordParams(project_id, name, s3_key, status, source, tiingo_fetch_id)
CreateDatasetRecordParams(symbol, frequency, s3_key, tiingo_fetch_id) ==
  [name |-> <<symbol, frequency>>, s3_key |-> s3_key, status |-> "ready",
   source |-> "tiingo", tiingo_fetch_id |-> tiingo_fetch_id]

NoFetchRun ==
  [worker |-> "run_worker", pc |-> "idle", symbol |-> "", frequency |-> "", runs |-> 0,
   attempts |-> 0, failures |-> 0, s3_key |-> NoKey, tiingo_fetches |-> 0, datasets |-> {}]

-----------------------------------------------------------------------------
(* ARIMA on a price series *)

\* Longest series the ARIMA calls are made with.
MaxSeries == 3

AdfThreshold == 5      \* 0.05, p-values counted in hundredths
AdfRaises == 0 - 1     \* adfuller(series) raised

NaNPrice == 0 - Infinity     \* np.nan in a prediction

\* differencing(series): series.diff().dropna()
differencing(series) == [i \in 1..(Len(series) - 1) |-> series[i + 1] - series[i]]

\* reverse_differencing(original_data, predictions): the running sum of the
\* predictions on top of the last observed value.
RECURSIVE reverse_differencing(_, _)
reverse_differencing(last_observed_value, predictions) ==
  IF predictions = <<>> THEN <<>>
  ELSE LET v == Head(predictions) + last_observed_value
       IN <<v>> \o reverse_differencing(v, Tail(predictions))

\* predictions[predictions < 0] = np.nan
MaskNegative(predictions) ==
  [i \in 1..Len(predictions) |-> IF predictions[i] < 0 THEN NaNPrice ELSE predictions[i]]

\* The ARIMAResults of a fit with the given order on a series of nobs
\* observations (which train had differenced or not); NoResults is None,
\* UnfitArima the ARIMA object whose fit() raised.
ArimaResults(nobs, differenced, order) ==
  [kind |-> "results", nobs |-> nobs, differenced |-> differenced, order |-> order]
NoResults == [kind |-> "None", nobs |-> 0, differenced |-> FALSE, order |-> <<>>]
UnfitArima == [kind |-> "unfit", nobs |-> 0, differenced |-> FALSE, order |-> <<>>]

\* ArimaModel() with the default config, nothing saved.
NoArima == [model |-> NoResults, best_params |-> ArimaDefaultOrder, file |-> NoResults]

\* ArimaModel.train on the close series `data`: p_value is what adf_test
\* returns, scen what the grid search meets, fit whether the final fit works.
ArimaTrainOutcome(a, data, p_value, scen, fit) ==
  IF p_value = AdfRaises THEN [a |-> a, status |-> "ValueError", differenced |-> 0]
  ELSE LET diffed == p_value > AdfThreshold
           close_prices == IF diffed THEN differencing(data) ELSE data
           best == grid_search_arima(scen)
           a2 == [a EXCEPT !.best_params = best]
           n == IF diffed THEN 1 ELSE 0
       IN IF best = <<>> THEN [a |-> a2, status |-> "TypeError", differenced |-> n]
          ELSE IF fit = "raises"
            THEN [a |-> [a2 EXCEPT !.model = UnfitArima], status |-> "Exception", differenced |-> n]
          ELSE LET res == ArimaResults(Len(close_prices), diffed, best)
               IN [a |-> [a2 EXCEPT !.model = res, !.file = res], status |-> "ok", differenced |-> n]

NoArimaResult(status) == [status |-> status, undiff |-> FALSE, values |-> <<>>]

\* ArimaModel.inference on the (resampled) close series close_prices, when
\* the held results forecast `predictions` in the units they were fitted in.
ArimaInferenceResult(a, close_prices, predictions) ==
  IF a.model.kind = "None" THEN NoArimaResult("ValueError")
  ELSE IF a.model.kind = "unfit" THEN NoArimaResult("AttributeError")
  ELSE IF close_prices = <<>> THEN NoArimaResult("ValueError")
  ELSE IF a.best_params = <<>> THEN NoArimaResult("TypeError")
  ELSE LET undiff == a.best_params[2] > 0
           p2 == IF undiff
                   THEN reverse_differencing(close_prices[Len(close_prices)], predictions)
                   ELSE predictions
       IN [status |-> "ok", undiff |-> undiff, values |-> MaskNegative(p2)]

\* ArimaModel.forecast(steps): the predictions as the results give them.
ArimaForecastResult(a, predictions) ==
  IF a.model.kind = "None" THEN NoArimaResult("ValueError")
  ELSE IF a.model.kind = "unfit" THEN NoArimaResult("AttributeError")
  ELSE IF predictions = <<>> THEN NoArimaResult("ValueError")
  ELSE [status |-> "ok", undiff |-> FALSE, values |-> predictions]

-----------------------------------------------------------------------------
(* Drawdown metrics *)

\* Longest close series and highest price the metrics are called with.
MaxCloses == 4
MaxPrice == 3

\* Floats as exact fractions <<numerator, denominator>>; NaNRat is nan.
NaNRat == <<0, 0>>
IsNaN(a) == a[2] = 0
RLess(a, b) == ~IsNaN(a) /\ ~IsNaN(b) /\ a[1] * b[2] < b[1] * a[2]
RMul(a, b) == IF IsNaN(a) \/ IsNaN(b) THEN NaNRat ELSE <<a[1] * b[1], a[2] * b[2]>>
RSub(a, b) == IF IsNaN(a) \/ IsNaN(b) THEN NaNRat ELSE <<a[1] * b[2] - b[1] * a[2], a[2] * b[2]>>
RDiv(a, b) == IF IsNaN(a) \/ IsNaN(b) \/ b[1] = 0 THEN NaNRat ELSE <<a[1] * b[2], a[2] * b[1]>>

\* Series.pct_change(): the first element has no predecessor.
pct_change(s) ==
  [i \in 1..Len(s) |-> IF i = 1 THEN NaNRat ELSE <<s[i] - s[i - 1], s[i - 1]>>]

\* Series.cumprod() and Series.cummax(): a nan stays nan at its own place
\* and is skipped by the accumulation.
RECURSIVE ProdUpTo(_, _)
ProdUpTo(s, i) ==
  IF i = 0 THEN <<1, 1>>
  ELSE IF IsNaN(s[i]) THEN ProdUpTo(s, i - 1) ELSE RMul(ProdUpTo(s, i - 1), s[i])
cumprod(s) == [i \in 1..Len(s) |-> IF IsNaN(s[i]) THEN NaNRat ELSE ProdUpTo(s, i)]

RECURSIVE MaxUpTo(_, _)
MaxUpTo(s, i) ==
  IF i = 0 THEN NaNRat
  ELSE LET m == MaxUpTo(s, i - 1)
       IN IF IsNaN(s[i]) THEN m
          ELSE IF IsNaN(m) \/ RLess(m, s[i]) THEN s[i] ELSE m
cummax(s) == [i \in 1..Len(s) |-> IF IsNaN(s[i]) THEN NaNRat ELSE MaxUpTo(s, i)]

\* Series.min(): the least element that is not nan, nan when there is none.
RECURSIVE MinUpTo(_, _)
MinUpTo(s, i) ==
  IF i = 0 THEN NaNRat
  ELSE LET m == MinUpTo(s, i - 1)
       IN IF IsNaN(s[i]) THEN m
          ELSE IF IsNaN(m) \/ RLess(s[i], m) THEN s[i] ELSE m
min(s) == MinUpTo(s, Len(s))

\* drawdown of MaximumDrawdownMetric.calculate and MddDurationMetric.calculate:
\* cumulative_returns = (1 + close.pct_change()).cumprod(), against its cummax.
Drawdown(close) ==
  LET pct == pct_change(close)
      cumulative_returns == cumprod([i \in 1..Len(close) |-> <<pct[i][2] + pct[i][1], pct[i][2]>>])
      peak == cummax(cumulative_returns)
  IN [i \in 1..Len(close) |-> RDiv(RSub(cumulative_returns[i], peak[i]), peak[i])]

\* MaximumDrawdownMetric.calculate
MaximumDrawdown(close) == min(Drawdown(close))

\* CalmarRatioMetric.calculate_max_drawdown
calculate_max_drawdown(close_prices) ==
  LET prices == [i \in 1..Len(close_prices) |-> <<close_prices[i], 1>>]
      peak == cummax(prices)
  IN min([i \in 1..Len(close_prices) |-> RSub(RDiv(prices[i], peak[i]), <<1, 1>>)])

\* MddDurationMetric.calculate: position of each observation within its run
\* of equal drawdown_periods, kept for the runs in drawdown; the maximum.
RECURSIVE RunCount(_, _)
RunCount(drawdown_periods, i) ==
  IF i = 1 \/ drawdown_periods[i] # drawdown_periods[i - 1] THEN 1
  ELSE RunCount(drawdown_periods, i - 1) + 1

MaxOf(S) == CHOOSE x \in S : \A y \in S : y <= x

MddDuration(close) ==
  LET drawdown == Drawdown(close)
      drawdown_periods == [i \in 1..Len(close) |-> IF RLess(drawdown[i], <<0, 1>>) THEN 1 ELSE 0]
  IN MaxOf({drawdown_periods[i] * RunCount(drawdown_periods, i) : i \in 1..Len(close)})

----------------------------------------------------------------------------
(* The activity tracker of the inference service *)

MaxClock == 800
ClockStep == 100

\* modal_config.activity_window, in seconds.
ActivityWindow == 300

Never == 0 - 1         \* no record_activity call for the experiment so far

\* ActivityTracker.__init__ at time 0, with the clock and, per experiment,
\* the time of its most recent record_activity call.
NoTracker ==
  [now |-> 0,
   activity_timestamps |-> [e \in {} |-> 0],
   recent_requests |-> {},
   last_cleanup |-> 0,
   recorded |-> [e \in Experiments |-> Never]]

\* The entries _cleanup_old_entries deletes.
expired_experiments(t) ==
  {e \in DOMAIN t.activity_timestamps :
     t.activity_timestamps[e] < t.now - ActivityWindow}

\* Variant of the cleanup whose cutoff is the current time.
cleanup_old_entries_NoWindow(t) ==
  LET expired == {e \in DOMAIN t.activity_timestamps : t.activity_timestamps[e] < t.now}
  IN [t EXCEPT !.activity_timestamps = [e \in DOMAIN @ \ expired |-> @[e]],
               !.recent_requests = @ \ expired,
               !.last_cleanup = t.now]

\* ActivityTracker._cleanup_old_entries.
cleanup_old_entries(t) ==
  LET expired == expired_experiments(t)
  IN [t EXCEPT !.activity_timestamps = [e \in DOMAIN @ \ expired |-> @[e]],
               !.recent_requests = @ \ expired,
               !.last_cleanup = t.now]

\* ActivityTracker.record_activity.
record_activity(t, experiment_id) ==
  LET t2 == [t EXCEPT !.activity_timestamps =
                         [e \in DOMAIN @ \cup {experiment_id} |->
                            IF e = experiment_id THEN t.now ELSE @[e]],
                      !.recent_requests = @ \cup {experiment_id},
                      !.recorded[experiment_id] = t.now]
  IN IF t.now - t.last_cleanup > ActivityWindow THEN cleanup_old_entries(t2) ELSE t2

\* ActivityTracker.has_recent_activity(experiment_id) for an experiment id.
has_recent_activity(t, experiment_id) ==
  IF experiment_id \in DOMAIN t.activity_timestamps
    THEN t.now - t.activity_timestamps[experiment_id] < ActivityWindow
    ELSE FALSE

\* ActivityTracker.get_active_experiments.
get_active_experiments(t) ==
  {e \in DOMAIN t.activity_timestamps : t.now - t.activity_timestamps[e] < ActivityWindow}

----------------------------------------------------------------------------
(* The inference service *)

\* A row of the experiments table as load_model and predict read it, with
\* the number of rows of its training dataset (0: no dataset record).
ExperimentRow(status, model_artifact_s3_key, modelName, dataset_rows) ==
  [status |-> status, model_artifact_s3_key |-> model_artifact_s3_key,
   modelName |-> modelName, dataset_rows |-> dataset_rows]

\* self.model and self.scaler of an instance of family f after train().
TrainedModel(f) ==
  CASE f = "lstm" -> Weights(1, 1)
    [] f = "arima" -> FittedOrder(1, ArimaDefaultOrder)
    [] OTHER -> Fitted(1)
TrainedScaler(f) == IF CtorScaler(f) = PyNone THEN PyNone ELSE Fitted(1)

\* The objects _train_model uploads for an experiment of family f; readable
\* tells whether joblib.load / torch.load can read the model object back.
Artifact(f, readable) ==
  [model |-> TrainedModel(f), scaler |-> TrainedScaler(f), readable |-> readable]

\* The service before any experiment completed and any request came in.
NoService ==
  [experiments |-> [e \in Experiments |-> ExperimentRow("pending", NoKey, "", 0)],
   models_bucket |-> [k \in {} |-> Artifact("regression", TRUE)],
   model_cache |-> [e \in {} |-> [m |-> NoInst, loaded |-> FALSE]]]

\* The temporary directory after the downloads: the model object under the
\* file name of its key, scaler.pkl when the bucket holds one.
TempDir(m, key, artifact) ==
  LET model_path == <<m.save_dir, m.model_name, key[2] \o key[3]>>
      files == {model_path} \cup (IF artifact.scaler # PyNone THEN {ScalerPath(m)} ELSE {})
  IN [p \in files |-> IF p = model_path THEN artifact.model ELSE artifact.scaler]

\* model_instance.load() on a model file that cannot be read: joblib.load
\* raises inside Model.load, which catches every exception and returns;
\* torch.load raises inside LstmModel.load, which re-raises.
LoadUnreadable(m) ==
  [m |-> m, restored |-> FALSE,
   status |-> IF m.model_type = "pytorch" THEN "UnpicklingError" ELSE "ok"]

LoadModelResult(status, cache, hit, accesses) ==
  [status |-> status, cache |-> cache, hit |-> hit, accesses |-> accesses]

\* load_model(experiment_id): the cache after the call, whether it was a
\* hit, and the number of database and storage accesses made.
load_model(s, experiment_id) ==
  IF experiment_id \in DOMAIN s.model_cache
    THEN LoadModelResult("ok", s.model_cache, TRUE, 0)
  ELSE LET row == s.experiments[experiment_id]
           key == row.model_artifact_s3_key
       IN IF row.status # "completed" THEN LoadModelResult("HTTP 404", s.model_cache, FALSE, 1)
          ELSE IF key = NoKey \/ row.modelName = "" THEN LoadModelResult("HTTP 404", s.model_cache, FALSE, 1)
          ELSE IF key \notin DOMAIN s.models_bucket THEN LoadModelResult("ClientError", s.model_cache, FALSE, 2)
          ELSE IF create_model(row.modelName, NoOverride) = "ValueError"
            THEN LoadModelResult("HTTP 500", s.model_cache, FALSE, 3)
          ELSE LET m == [NewModel(row.modelName, "default", DefaultConfig(row.modelName))
                           EXCEPT !.save_dir = "temp_dir"]
                   artifact == s.models_bucket[key]
                   r == IF artifact.readable
                          THEN LoadResult(m, TempDir(m, key, artifact))
                          ELSE LoadUnreadable(m)
               IN IF r.status # "ok" THEN LoadModelResult("HTTP 500", s.model_cache, FALSE, 3)
                  ELSE LoadModelResult("ok",
                         [e \in DOMAIN s.model_cache \cup {experiment_id} |->
                            IF e = experiment_id THEN [m |-> r.m, loaded |-> r.restored]
                            ELSE s.model_cache[e]],
                         FALSE, 3)

MinDataPoints == 60    \* min_data_points of the LSTM branch
LstmTail == 100        \* training_data.tail(max(min_data_points, 100))
FallbackTail == 10     \* training_data.tail(10)

tail(rows, n) == IF rows < n THEN rows ELSE n

PredictResult(status, source, next_prediction) ==
  [status |-> status, source |-> source, next_prediction |-> next_prediction]

\* The forecast stage of predict: the value taken from model.forecast, or
\* NoVal for next_prediction = None (any exception of the stage is caught).
ForecastStage(m, c, dataset_rows) ==
  LET r == IF m.family = "lstm"
             THEN (IF dataset_rows = 0 \/ dataset_rows < MinDataPoints THEN Raise("HTTPException")
                   ELSE ForecastResult(m, c, 1, tail(dataset_rows, LstmTail)))
             ELSE ForecastResult(m, c, 1, 0)
  IN IF r.status = "ok" THEN r.val ELSE NoVal

\* The body of predict on the instance load_model returned.
predict(m, c, dataset_rows) ==
  LET forecast == ForecastStage(m, c, dataset_rows)
      inference == InferenceResult(m, c, tail(dataset_rows, FallbackTail))
  IN IF forecast # NoVal
       THEN (IF forecast.marker = "N/A"
               THEN PredictResult("HTTP 500", "forecast", NoVal)   \* float("N/A")
               ELSE PredictResult("200", "forecast", forecast))
     ELSE IF dataset_rows = 0 THEN PredictResult("HTTP 500", "none", NoVal)
     ELSE IF inference.status # "ok" THEN PredictResult("HTTP 500", "inference", NoVal)
     ELSE PredictResult("200", "inference", inference.val)

----------------------------------------------------------------------------
(* State *)

Insts == 1..MaxInst

Ret(op, i, name, status, val, wrote, restored) ==
  [op |-> op, inst |-> i, name |-> name, status |-> status, val |-> val,
   wrote |-> wrote, restored |-> restored]

NoSaved == [x \in InputLens |-> Raise("none")]

NoTable == Table({}, [col \in Columns |-> FALSE], <<>>)
NoPre == [status |-> "none", out |-> NoTable, input |-> NoTable]

Init ==
  /\ inst = [i \in Insts |-> NoInst]
  /\ defaultCfg = [f \in ModelNames |-> DefaultConfig(f)]
  /\ ownCfg = [i \in Insts |-> NoConfigFields]
  /\ fs = [p \in {} |-> Absent]
  /\ ret = Ret("init", 0, "", "ok", NoVal, {}, FALSE)
  /\ phase = [i \in Insts |-> "None"]
  /\ saved = [k \in {} |-> NoSaved]
  /\ creates = 0
  /\ ppIn = NoTable
  /\ ppOut = [arg |-> NoTable, first |-> NoPre, second |-> NoPre]
  /\ wf = NoRun
  /\ arima = NoArima
  /\ dep = NoDeployRun
  /\ fetch = NoFetchRun
  /\ tracker = NoTracker
  /\ svc = NoService

\* The config object instance i holds.
ConfigOf(i) == IF inst[i].cfg = "own" THEN ownCfg[i] ELSE defaultCfg[inst[i].family]

Live(i) == inst[i] # NoInst

\* Writing c back into the config object instance i holds.
StoreConfig(i, c) ==
  IF inst[i].cfg = "own"
    THEN /\ ownCfg' = [ownCfg EXCEPT ![i] = c]
         /\ UNCHANGED defaultCfg
    ELSE /\ defaultCfg' = [defaultCfg EXCEPT ![inst[i].family] = c]
         /\ UNCHANGED ownCfg

\* Files written by anything but a save() of a trained instance no longer
\* carry that instance's answers.
ForgetSaved(wrote) ==
  [k \in {k \in DOMAIN saved : ~\E p \in wrote : p[1] = k[1] /\ p[2] = k[2]} |-> saved[k]]

----------------------------------------------------------------------------
(* Operations *)

\* model = ModelFactory().create_model(name, config), bound to client variable i.
CreateModel(i, name, config) ==
  /\ creates < MaxCreates
  /\ creates' = creates + 1
  /\ LET how == create_model(name, config) IN
       IF how = "ValueError"
         THEN /\ ret' = Ret("create_model", i, name, "ValueError", [kind |-> "failed", config |-> config], {}, FALSE)
              /\ UNCHANGED <<inst, ownCfg, phase>>
         ELSE /\ inst' = [inst EXCEPT ![i] =
                            NewModel(name, how, IF how = "own" THEN Overlay(config) ELSE defaultCfg[name])]
              /\ ownCfg' = [ownCfg EXCEPT ![i] = IF how = "own" THEN Overlay(config) ELSE NoConfigFields]
              /\ phase' = [phase EXCEPT ![i] = "Uninitialized"]
              /\ ret' = Ret("create_model", i, name, "ok", [kind |-> "created", config |-> config], {}, FALSE)
  /\ UNCHANGED <<defaultCfg, fs, saved, ppIn, ppOut, wf, serviceVars>>

\* metric = MetricFactory().create_metric(name); metrics hold no state.
CreateMetric(name) ==
  /\ ret' = Ret("create_metric", 0, name, create_metric(name), NoVal, {}, FALSE)
  /\ UNCHANGED <<inst, defaultCfg, ownCfg, fs, phase, saved, creates, ppIn, ppOut, wf, serviceVars>>

\* model.save_dir = dir, as run_training and the serving layer do.
SetSaveDir(i, dir) ==
  /\ Live(i)
  /\ inst[i].save_dir # dir
  /\ inst' = [inst EXCEPT ![i].save_dir = dir]
  /\ ret' = Ret("set_save_dir", i, inst[i].family, "ok", NoVal, {}, FALSE)
  /\ UNCHANGED <<defaultCfg, ownCfg, fs, phase, saved, creates, ppIn, ppOut, wf, serviceVars>>

\* model.train(data)
Train(i, d, fate, scen) ==
  /\ Live(i)
  /\ \E out \in {TrainOutcome(inst[i], ConfigOf(i), fs, d, fate, scen)} :
       /\ inst' = [inst EXCEPT ![i] = out.m]
       /\ StoreConfig(i, out.c)
       /\ fs' = out.fs
       /\ saved' = ForgetSaved(out.wrote)
       /\ phase' = [phase EXCEPT ![i] = IF out.status = "ok" THEN "Trained" ELSE @]
       /\ ret' = Ret("train", i, inst[i].family, out.status,
                      [kind |-> "train", data |-> d, scen |-> scen], out.wrote, FALSE)
  /\ UNCHANGED <<creates, ppIn, ppOut, wf, serviceVars>>

\* model.save()
Save(i) ==
  /\ Live(i)
  /\ fs' = SaveFs(inst[i], fs)
  /\ saved' =
       IF phase[i] = "Trained"
         THEN [k \in DOMAIN saved \cup {<<inst[i].save_dir, inst[i].model_name>>} |->
                 IF k = <<inst[i].save_dir, inst[i].model_name>>
                   THEN [x \in InputLens |-> InferenceResult(inst[i], ConfigOf(i), x)]
                   ELSE saved[k]]
         ELSE ForgetSaved(SaveWrites(inst[i]))
  /\ ret' = Ret("save", i, inst[i].family, "ok", NoVal, SaveWrites(inst[i]), FALSE)
  /\ UNCHANGED <<inst, defaultCfg, ownCfg, phase, creates, ppIn, ppOut, wf, serviceVars>>

\* model.load()
Load(i) ==
  /\ Live(i)
  /\ LET r == LoadResult(inst[i], fs) IN
       /\ inst' = [inst EXCEPT ![i] = r.m]
       /\ phase' = [phase EXCEPT ![i] = IF r.restored THEN "Loaded" ELSE @]
       /\ ret' = Ret("load", i, inst[i].family, r.status, [kind |-> "load", was |-> phase[i]], {}, r.restored)
  /\ UNCHANGED <<defaultCfg, ownCfg, fs, saved, creates, ppIn, ppOut, wf, serviceVars>>

\* model.inference(input_data) on an input of `rows` rows
Inference(i, rows) ==
  /\ Live(i)
  /\ LET r == InferenceResult(inst[i], ConfigOf(i), rows) IN
       ret' = Ret("inference", i, inst[i].family, r.status, r.val, {}, FALSE)
  /\ UNCHANGED <<inst, defaultCfg, ownCfg, fs, phase, saved, creates, ppIn, ppOut, wf, serviceVars>>

\* model.forecast(steps) / LstmModel.forecast(steps, last_known_data)
Forecast(i, steps, rows) ==
  /\ Live(i)
  /\ LET r == ForecastResult(inst[i], ConfigOf(i), steps, rows) IN
       ret' = Ret("forecast", i, inst[i].family, r.status, r.val, {}, FALSE)
  /\ UNCHANGED <<inst, defaultCfg, ownCfg, fs, phase, saved, creates, ppIn, ppOut, wf, serviceVars>>

\* A new process: every instance is gone, the default config objects are
\* built again at import, the files stay.
Restart ==
  /\ \E i \in Insts : Live(i)
  /\ inst' = [i \in Insts |-> NoInst]
  /\ defaultCfg' = [f \in ModelNames |-> DefaultConfig(f)]
  /\ ownCfg' = [i \in Insts |-> NoConfigFields]
  /\ phase' = [i \in Insts |-> "None"]
  /\ ret' = Ret("restart", 0, "", "ok", NoVal, {}, FALSE)
  /\ UNCHANGED <<fs, saved, creates, ppIn, ppOut, wf, serviceVars>>

----------------------------------------------------------------------------
(* run_training *)

NoPath == <<>>

\* Variant of the post-check that accepts a missing artifact.
ArtifactFound_Skipped(f, path) == TRUE

\* os.path.exists(model_artifact_path) in run_training's post-check.
ArtifactFound(f, path) == FileAt(f, path) # Absent

\* A table as the data-fetch collaborator builds it: n rows, every cell a
\* number, except that column nullCol is null in the first row.
FetchedTable(cols, numeric, n, nullCol) ==
  Table(cols, numeric,
        [k \in 1..n |-> [id |-> k,
                         cells |-> [col \in Columns |->
                                      IF k = 1 /\ col = nullCol THEN "null" ELSE "num"]]])

AllNumeric == [col \in Columns |-> col # "date"]

TrainTables ==
  {FetchedTable(Columns, AllNumeric, 2, "-"),
   FetchedTable(Columns, AllNumeric, 2, "close"),
   FetchedTable(Columns \ {"volume"}, AllNumeric, 2, "-"),
   FetchedTable(Columns, [AllNumeric EXCEPT !["open"] = FALSE], 2, "-")}

\* run_training(model_name, data, output_dir); d names the content of data.
RunTraining(name, t, d, dir, fate, scen) ==
  LET pre == preprocess_data(t)
      how == create_model(name, NoOverride)
  IN
  /\ creates < MaxCreates
  /\ creates' = creates + 1
  /\ IF pre.status # "ok" \/ how = "ValueError"
       THEN /\ ret' = Ret("run_training", 0, name, "ValueError", NoVal, {}, FALSE)
            /\ UNCHANGED <<defaultCfg, fs, saved>>
       ELSE \E out \in {TrainOutcome([NewModel(name, how, defaultCfg[name]) EXCEPT !.save_dir = dir],
                                      defaultCfg[name], fs, d, fate, scen)} :
            LET model_artifact_path == <<dir, name, ModelFile(out.m)>>
                scaler_file == <<dir, name, "scaler.pkl">>
            IN /\ defaultCfg' = [defaultCfg EXCEPT ![name] = out.c]
               /\ fs' = out.fs
               /\ saved' = ForgetSaved(out.wrote)
               /\ ret' =
                    IF out.status # "ok"
                      THEN Ret("run_training", 0, name, out.status, NoVal, out.wrote, FALSE)
                    ELSE IF ~ArtifactFound(out.fs, model_artifact_path)
                      THEN Ret("run_training", 0, name, "FileNotFoundError",
                               [kind |-> "missing", model_artifact_path |-> model_artifact_path],
                               out.wrote, FALSE)
                    ELSE Ret("run_training", 0, name, "ok",
                             [kind |-> "paths",
                              output_dir |-> dir,
                              model_type |-> out.m.model_type,
                              save_writes |-> SaveWrites(out.m),
                              model_artifact_path |-> model_artifact_path,
                              scaler_artifact_path |->
                                IF FileAt(out.fs, scaler_file) # Absent THEN scaler_file ELSE NoPath],
                             out.wrote, FALSE)
  /\ UNCHANGED <<inst, ownCfg, phase, ppIn, ppOut, wf, serviceVars>>

\* cleaned = preprocess_data(t); again = preprocess_data(cleaned)
Preprocess(t) ==
  LET first == preprocess_data(t) IN
  /\ ppIn' = first.input
  /\ ppOut' = [arg |-> t, first |-> first,
               second |-> IF first.status = "ok" THEN preprocess_data(first.out) ELSE NoPre]
  /\ UNCHANGED <<inst, defaultCfg, ownCfg, fs, ret, phase, saved, creates, wf, serviceVars>>

----------------------------------------------------------------------------
(* Specification of the model lifecycle *)

Fates == {"ok", "early", "late"}

AicScenarios == {[winner |-> w, failFirst |-> FALSE] : w \in {0, 2, 10}}
                \cup {[winner |-> w, failFirst |-> TRUE] : w \in {4, Len(Candidates) + 1}}

NoScenario == [kind |-> "none", k |-> 0]

\* The behaviours of the numerical routines that matter to a family's
\* train: the losses once the epoch loop runs, the AIC values once the grid
\* search runs.
ScenariosFor(f, fate) ==
  CASE f = "lstm" /\ fate = "ok" -> LossScenarios
    [] f = "arima" /\ fate # "early" -> AicScenarios
    [] OTHER -> {NoScenario}

\* Overrides the lifecycle specification hands to the factory.
LifecycleOverrides ==
  {NoOverride,
   [k \in {"epochs"} |-> Num(0)],
   [k \in {"time_steps", "epochs"} |-> Num(5 * FixedPoint)]}

\* Instances of different families share neither a config object nor a
\* file, so a behaviour works with one family.
OneFamily(name) ==
  /\ \A j \in Insts : Live(j) => inst[j].family = name
  /\ \A p \in DOMAIN fs : p[2] = name

\* The lifecycle specification follows one client variable.
Client == 1

\* inference and forecast change nothing but what they return, so a
\* behaviour does not issue two of them in a row.
Queried == ret.op \in {"inference", "forecast"}

Next ==
  \/ \E name \in ModelNames \cup {"does_not_exist"} :
       \E config \in (IF name = "lstm" THEN LifecycleOverrides ELSE {NoOverride}) :
         /\ name \in ModelNames => OneFamily(name)
         /\ CreateModel(Client, name, config)
  \/ \E d \in DataIds, fate \in Fates :
       \E scen \in ScenariosFor(inst[Client].family, fate) : Train(Client, d, fate, scen)
  \/ Save(Client)
  \/ Load(Client)
  \/ \E rows \in InputLens : ~Queried /\ Inference(Client, rows)
  \/ \E steps \in Steps, rows \in InputLens : ~Queried /\ Forecast(Client, steps, rows)
  \/ Restart

Spec == Init /\ [][Next]_vars

----------------------------------------------------------------------------
(* Specification of several instances in one process *)

NextShared ==
  \/ \E i \in Insts, name \in ModelNames :
       /\ OneFamily(name)
       /\ CreateModel(i, name, NoOverride)
  \/ \E i \in Insts, d \in DataIds, fate \in Fates :
       \E scen \in ScenariosFor(inst[i].family, fate) : Train(i, d, fate, scen)
  \/ \E i \in Insts, rows \in InputLens : ~Queried /\ Inference(i, rows)

SpecShared == Init /\ [][NextShared]_vars

----------------------------------------------------------------------------
(* Specification of the training orchestrator and the serving side *)

NextTrainer ==
  \/ \E name \in ModelNames \cup {"does_not_exist"}, t \in TrainTables, d \in DataIds,
        dir \in Dirs, fate \in Fates :
       /\ creates < MaxCreates
       /\ name \in ModelNames => OneFamily(name)
       /\ \E scen \in ScenariosFor(name, fate) : RunTraining(name, t, d, dir, fate, scen)
  \/ \E name \in ModelNames : OneFamily(name) /\ CreateModel(Client, name, NoOverride)
  \/ \E dir \in Dirs : SetSaveDir(Client, dir)
  \/ Load(Client)

SpecTrainer == Init /\ [][NextTrainer]_vars

----------------------------------------------------------------------------
(* Specification of the factories *)

\* 2, 2.5, "3" and "abc"
OverrideVals == {Num(2 * FixedPoint), Num(5 * (FixedPoint \div 2)), NumStr(3 * FixedPoint), BadStr}

\* The dicts with at most n keys.
FactoryOverrides(n) ==
  UNION {[ks -> OverrideVals] : ks \in {ks \in SUBSET OverrideKeys : Cardinality(ks) <= n}}

ModelNameInputs == ModelNames \cup {"does_not_exist", "base_model", "Lstm", "lstm_", ""}
MetricNameInputs == MetricNames \cup {"does_not_exist", "base_metric"}

\* Every call with an override builds a LstmConfig of its own, whatever
\* came before: the override goes to the first call of a behaviour and the
\* later calls see what it left behind.
NextFactory ==
  \/ \E name \in ModelNameInputs :
       \E config \in (IF name = "lstm" THEN FactoryOverrides(MaxOverrideKeys) ELSE {NoOverride, [k \in {"epochs"} |-> Num(0)]}) :
         /\ creates < MaxCreates
         /\ (config = NoOverride \/ creates = 0)
         /\ CreateModel(Client, name, config)
  \/ \E name \in MetricNameInputs : CreateMetric(name)

SpecFactory == Init /\ [][NextFactory]_vars

----------------------------------------------------------------------------
(* Specification of preprocess_data *)

NoCol == "-"

\* The tables of at most maxRows rows in which at most one column is
\* missing, at most one column has dtype object, and every row has at most
\* one null cell and a str only in the object column.
PreTables(maxRows) ==
  {Table(Columns \ {missing},
         [col \in Columns |-> col # objcol],
         [k \in 1..n |->
            [id |-> k,
             cells |-> [col \in Columns |->
                          IF col = nulls[k] THEN "null"
                          ELSE IF col = objcol /\ strs[k] THEN "str"
                          ELSE "num"]]]) :
     missing \in Columns \cup {NoCol}, objcol \in Columns \cup {NoCol},
     n \in 0..maxRows,
     nulls \in [1..maxRows -> Columns \cup {NoCol}], strs \in [1..maxRows -> BOOLEAN]}

\* One call per behaviour.
NextPre ==
  /\ ppOut.first = NoPre
  /\ \E t \in PreTables(MaxRows) : Preprocess(t)

SpecPre == Init /\ [][NextPre]_vars

----------------------------------------------------------------------------
(* Specification of the lag-based families on frames *)

\* The price frames of at most maxRows rows with at most one NaN cell (a
\* close, or a cell of another column); the index is 1, 2, ... or, with
\* dup, repeats its first label on the last row. The close of row i is 10 i.
LagFrames(maxRows) ==
  {[i \in 1..n |->
      LagRow(IF dup /\ i = n THEN 1 ELSE i, i,
             IF nan = <<i, "close">> THEN Missing ELSE 10 * i,
             IF nan = <<i, "other">> THEN Missing ELSE 0)] :
     n \in 0..maxRows, dup \in BOOLEAN,
     nan \in ((1..maxRows) \X {"close", "other"}) \cup {<<0, "">>}}

\* create_lag_features(data, "close", n_lags) called on its own.
LagFeatures(data, n_lags) ==
  /\ ret' = Ret("create_lag_features", 0, "", "ok",
                [kind |-> "lag", data |-> data, n_lags |-> n_lags,
                 out |-> create_lag_features(data, n_lags)], {}, FALSE)
  /\ UNCHANGED <<inst, defaultCfg, ownCfg, fs, phase, saved, creates, ppIn, ppOut, wf, serviceVars>>

\* model.inference(input_data) of a lag-based instance on a frame.
LagInference(i, input_data) ==
  /\ Live(i)
  /\ inst[i].family \in LagFamilies
  /\ \E r \in {InferLagFrame(inst[i], input_data)} :
       ret' = Ret("inference", i, inst[i].family, r.status,
                  [kind |-> "frame", input_data |-> input_data, n_lags |-> inst[i].n_lags,
                   predicted |-> r.predicted, result |-> r.result], {}, FALSE)
  /\ UNCHANGED <<inst, defaultCfg, ownCfg, fs, phase, saved, creates, ppIn, ppOut, wf, serviceVars>>

\* A query changes nothing but the outcome of the last call, so a behaviour
\* ends with its query.
NextLag ==
  \/ \E data \in LagFrames(MaxLagRows), n_lags \in 0..MaxLags :
       ret.op = "init" /\ LagFeatures(data, n_lags)
  \/ \E name \in LagFamilies : ~Queried /\ CreateModel(Client, name, NoOverride)
  \/ \E d \in DataIds, fate \in Fates : ~Queried /\ Train(Client, d, fate, NoScenario)
  \/ ~Queried /\ Load(Client)
  \/ \E input_data \in LagFrames(MaxLagRows) : ~Queried /\ LagInference(Client, input_data)
  \/ ~Queried /\ Restart

SpecLag == Init /\ [][NextLag]_vars
----------------------------------------------------------------------------
(* Specification of the LSTM windows *)

\* The default configuration (time_steps 60) and one with short windows.
LstmOverrides == {NoOverride, [k \in {"time_steps", "epochs"} |-> Num(3 * FixedPoint)]}

\* Frames around each window length: one row less, as many, one and two
\* more; the empty frame; and minute frames of more than 1000 rows that
\* fall into that many hours.
LstmLens == {0} \cup UNION {{ts - 1, ts, ts + 1, ts + 2} : ts \in {3, LstmConfig.time_steps}}
LstmFrames ==
  {Frame(n, n, s) : n \in LstmLens, s \in {Minute, Day}}
    \cup {Frame(ResampleAbove + 1, h, Minute) : h \in LstmLens \ {0}}

\* model.inference(input_data) of an LSTM instance on a frame.
LstmInference(i, input_data) ==
  /\ Live(i)
  /\ inst[i].family = "lstm"
  /\ \E r \in {InferLstmFrame(inst[i], ConfigOf(i), input_data)} :
       ret' = Ret("inference", i, inst[i].family, r.status,
                  [kind |-> "window", input_data |-> input_data, steps |-> 0,
                   time_steps |-> ConfigOf(i).time_steps, msg |-> r.msg,
                   predicted |-> r.predicted, rows |-> r.rows, fed |-> r.fed], {}, FALSE)
  /\ UNCHANGED <<inst, defaultCfg, ownCfg, fs, phase, saved, creates, ppIn, ppOut, wf, serviceVars>>

\* model.forecast(steps, last_known_data) of an LSTM instance on a frame.
LstmForecast(i, steps, last_known_data) ==
  /\ Live(i)
  /\ inst[i].family = "lstm"
  /\ \E r \in {ForecastLstmFrame(inst[i], ConfigOf(i), steps, last_known_data)} :
       ret' = Ret("forecast", i, inst[i].family, r.status,
                  [kind |-> "window", input_data |-> last_known_data, steps |-> steps,
                   time_steps |-> ConfigOf(i).time_steps, msg |-> r.msg,
                   predicted |-> r.predicted, rows |-> r.rows, fed |-> r.fed], {}, FALSE)
  /\ UNCHANGED <<inst, defaultCfg, ownCfg, fs, phase, saved, creates, ppIn, ppOut, wf, serviceVars>>

\* A query changes nothing but the outcome of the last call, so a behaviour
\* ends with its query.
NextLstm ==
  \/ \E config \in LstmOverrides : ~Queried /\ CreateModel(Client, "lstm", config)
  \/ \E d \in DataIds, fate \in Fates :
       /\ ~Queried
       /\ \E scen \in ScenariosFor("lstm", fate) : Train(Client, d, fate, scen)
  \/ ~Queried /\ Load(Client)
  \/ \E input_data \in LstmFrames : ~Queried /\ LstmInference(Client, input_data)
  \/ \E steps \in 0..MaxRollout, last_known_data \in LstmFrames :
       ~Queried /\ LstmForecast(Client, steps, last_known_data)
  \/ ~Queried /\ Restart

SpecLstm == Init /\ [][NextLstm]_vars
----------------------------------------------------------------------------
(* Specification of the training workflow *)

ModelExts == {".pkl", ".pt"}
ActivityFailures == {"error", "timeout"}

\* TrainModelWorkflow.run is started for an experiment that has no run yet.
WfStart(experiment_id) ==
  /\ wf.pc \in {"idle", "returned completed", "returned failed"}
  /\ wf.runs[experiment_id] = NoActivity
  /\ wf' = [wf EXCEPT !.pc = "train", !.experiment_id = experiment_id, !.failures = 0]
  /\ UNCHANGED <<inst, defaultCfg, ownCfg, fs, ret, phase, saved, creates, ppIn, ppOut, serviceVars>>

\* One attempt of train_model_activity: it returns the artifact key, or
\* fails (an exception of _train_model, or the start-to-close timeout).
\* The retry policy allows TrainMaxAttempts attempts; after the last one
\* the failure is raised in the workflow and caught by `except Exception`.
TrainActivity(outcome, model_ext) ==
  /\ wf.pc = "train"
  /\ wf.runs[wf.experiment_id].attempts < TrainMaxAttempts
  /\ wf' =
       IF outcome = "ok"
         THEN [wf EXCEPT !.pc = "update completed",
                         !.runs[wf.experiment_id] =
                            [attempts |-> @.attempts + 1, trained |-> "ok",
                             training_result |-> ArtifactKey(wf.experiment_id, model_ext)]]
         ELSE [wf EXCEPT !.pc = IF wf.runs[wf.experiment_id].attempts + 1 < TrainMaxAttempts
                                  THEN "train" ELSE "update failed",
                         !.runs[wf.experiment_id] =
                            [attempts |-> @.attempts + 1, trained |-> outcome,
                             training_result |-> NoKey]]
  /\ UNCHANGED <<inst, defaultCfg, ownCfg, fs, ret, phase, saved, creates, ppIn, ppOut, serviceVars>>

\* An attempt of update_experiment_status_activity that commits; the
\* workflow then returns.
UpdateCommit ==
  /\ wf.pc \in {"update completed", "update failed"}
  /\ wf' =
       IF wf.pc = "update completed"
         THEN [wf EXCEPT !.pc = "returned completed",
                         !.db = update_experiment_status(wf.db,
                                  UpdateExperimentParams(wf.experiment_id, "completed",
                                                         wf.runs[wf.experiment_id].training_result))]
         ELSE [wf EXCEPT !.pc = "returned failed",
                         !.db = update_experiment_status(wf.db,
                                  UpdateExperimentParams(wf.experiment_id, "failed", NoKey))]
  /\ UNCHANGED <<inst, defaultCfg, ownCfg, fs, ret, phase, saved, creates, ppIn, ppOut, serviceVars>>

\* An attempt of update_experiment_status_activity that raises: rollback,
\* and the default retry policy schedules another attempt.
UpdateRaise ==
  /\ wf.pc \in {"update completed", "update failed"}
  /\ wf.failures < MaxUpdateFailures
  /\ wf' = [wf EXCEPT !.failures = @ + 1]
  /\ UNCHANGED <<inst, defaultCfg, ownCfg, fs, ret, phase, saved, creates, ppIn, ppOut, serviceVars>>

NextWorkflow ==
  \/ \E experiment_id \in Experiments : WfStart(experiment_id)
  \/ \E outcome \in {"ok"} \cup ActivityFailures, model_ext \in ModelExts :
       (outcome # "ok" => model_ext = ".pkl") /\ TrainActivity(outcome, model_ext)
  \/ UpdateCommit
  \/ UpdateRaise

\* The status activity is retried without limit, so a write is eventually
\* committed.
SpecWorkflow == Init /\ [][NextWorkflow]_vars /\ WF_vars(UpdateCommit)

\* The await of update_experiment_status_activity raises in the workflow: the
\* run was asked to cancel while the activity was in flight, or the failure
\* is one the retry policy does not retry. The attempt may have committed
\* before. Raised inside the try it is caught by `except Exception`, which
\* schedules the write of 'failed'; raised inside the except block it ends
\* the run.
UpdateActivityError(committed) ==
  /\ wf.pc \in {"update completed", "update failed"}
  /\ wf' =
       LET status == IF wf.pc = "update completed" THEN "completed" ELSE "failed"
           key == IF wf.pc = "update completed"
                    THEN wf.runs[wf.experiment_id].training_result ELSE NoKey
           db == IF committed
                   THEN update_experiment_status(wf.db,
                          UpdateExperimentParams(wf.experiment_id, status, key))
                   ELSE wf.db
       IN [wf EXCEPT !.pc = IF wf.pc = "update completed" THEN "update failed" ELSE "raised",
                     !.failures = 0,
                     !.db = db]
  /\ UNCHANGED <<inst, defaultCfg, ownCfg, fs, ret, phase, saved, creates, ppIn, ppOut, serviceVars>>

\* The training workflow when the await of a status update may raise.
NextWorkflowCancel ==
  \/ \E experiment_id \in Experiments : WfStart(experiment_id)
  \/ \E outcome \in {"ok"} \cup ActivityFailures, model_ext \in ModelExts :
       (outcome # "ok" => model_ext = ".pkl") /\ TrainActivity(outcome, model_ext)
  \/ UpdateCommit
  \/ UpdateRaise
  \/ \E committed \in BOOLEAN : UpdateActivityError(committed)

SpecWorkflowCancel == Init /\ [][NextWorkflowCancel]_vars
-----------------------------------------------------------------------------
(* Specification of ARIMA on a price series *)

ArimaPrices == {1, 4}
ForecastValues == {0 - 2, 3}
PValues == {AdfRaises, 1, AdfThreshold, AdfThreshold + 1}

\* The training series: 1, 2, ..., n (only its length reaches the state).
Ramp(n) == [i \in 1..n |-> i]

SeriesOf(values, minLen, maxLen) == UNION {[1..n -> values] : n \in minLen..maxLen}

ArimaTrain(data, p_value, scen, fit) ==
  /\ \E out \in {ArimaTrainOutcome(arima, data, p_value, scen, fit)} :
       /\ arima' = out.a
       /\ ret' = Ret("train", 0, "arima", out.status,
                     [kind |-> "arima_train", rows |-> Len(data), p_value |-> p_value,
                      scen |-> scen, differenced |-> out.differenced], {}, FALSE)
  /\ UNCHANGED <<coreVars, dep, fetch, tracker, svc>>

ArimaInference(close_prices, predictions) ==
  /\ Len(predictions) = Len(close_prices)
  /\ \E r \in {ArimaInferenceResult(arima, close_prices, predictions)} :
       ret' = Ret("inference", 0, "arima", r.status,
                  [kind |-> "arima_pred", close_prices |-> close_prices,
                   predictions |-> predictions, undiff |-> r.undiff,
                   values |-> r.values], {}, FALSE)
  /\ UNCHANGED <<coreVars, arima, dep, fetch, tracker, svc>>

ArimaForecast(predictions) ==
  /\ \E r \in {ArimaForecastResult(arima, predictions)} :
       ret' = Ret("forecast", 0, "arima", r.status,
                  [kind |-> "arima_pred", close_prices |-> <<>>,
                   predictions |-> predictions, undiff |-> r.undiff,
                   values |-> r.values], {}, FALSE)
  /\ UNCHANGED <<coreVars, arima, dep, fetch, tracker, svc>>

\* A new process: ModelFactory().create_model("arima") and load() of the
\* model.pkl an earlier train saved; the config is the constructor's default.
ArimaReload ==
  /\ arima.file.kind = "results"
  /\ arima' = [NoArima EXCEPT !.model = arima.file, !.file = arima.file]
  /\ ret' = Ret("load", 0, "arima", "ok", NoVal, {}, TRUE)
  /\ UNCHANGED <<coreVars, dep, fetch, tracker, svc>>

NextArima ==
  \/ \E data \in {Ramp(n) : n \in 2..MaxSeries}, p_value \in PValues,
        scen \in AicScenarios, fit \in {"ok", "raises"} :
       ~Queried /\ ArimaTrain(data, p_value, scen, fit)
  \/ \E close_prices \in SeriesOf(ArimaPrices, 0, MaxSeries - 1),
        predictions \in SeriesOf(ForecastValues, 0, MaxSeries - 1) :
       ~Queried /\ ArimaInference(close_prices, predictions)
  \/ \E predictions \in SeriesOf(ForecastValues, 0, MaxSeries - 1) :
       ~Queried /\ ArimaForecast(predictions)
  \/ ~Queried /\ ArimaReload

SpecArima == Init /\ [][NextArima]_vars

-----------------------------------------------------------------------------
(* Specification of the drawdown metrics *)

CloseSeries(maxLen, maxPrice) == UNION {[1..n -> 1..maxPrice] : n \in 1..maxLen}

\* MaximumDrawdownMetric().calculate(input_data) on a frame with these closes.
CalculateMaximumDrawdown(close) ==
  /\ ret' = Ret("calculate", 0, "maximum_drawdown", "ok",
                [kind |-> "metric", close |-> close, out |-> MaximumDrawdown(close)], {}, FALSE)
  /\ UNCHANGED <<inst, defaultCfg, ownCfg, fs, phase, saved, creates, ppIn, ppOut, wf, serviceVars>>

\* MddDurationMetric().calculate(input_data) on a frame with these closes.
CalculateMddDuration(close) ==
  /\ ret' = Ret("calculate", 0, "mdd_duration", "ok",
                [kind |-> "metric", close |-> close, out |-> MddDuration(close)], {}, FALSE)
  /\ UNCHANGED <<inst, defaultCfg, ownCfg, fs, phase, saved, creates, ppIn, ppOut, wf, serviceVars>>

NextMetrics ==
  \/ \E close \in CloseSeries(MaxCloses, MaxPrice) : ret.op = "init" /\ CalculateMaximumDrawdown(close)
  \/ \E close \in CloseSeries(MaxCloses, MaxPrice) : ret.op = "init" /\ CalculateMddDuration(close)

SpecMetrics == Init /\ [][NextMetrics]_vars

-----------------------------------------------------------------------------
(* Specification of the deployment workflow *)

\* deployment.web_url of the endpoint Modal created.
EndpointUrls == {<<"https", name, "modal.run">> : name \in {"a", "b"}}

\* DeployModelWorkflow.run is started for a deployment that has no run yet.
DeployStart(deployment_id) ==
  /\ dep.pc \in {"idle", "returned", "raised"}
  /\ dep.runs[deployment_id] = NoDeployment
  /\ dep' = [dep EXCEPT !.pc = "deploy", !.deployment_id = deployment_id, !.failures = 0]
  /\ UNCHANGED <<coreVars, ret, arima, fetch, tracker, svc>>

\* One attempt of deploy_model_activity: it returns the endpoint URL, or
\* fails (an exception of the Modal call, or the start-to-close timeout).
\* After DeployMaxAttempts attempts the failure is raised in the workflow
\* and caught by `except Exception`.
DeployActivity(outcome, endpoint_url) ==
  /\ dep.pc = "deploy"
  /\ dep.runs[dep.deployment_id].attempts < DeployMaxAttempts
  /\ dep' =
       IF outcome = "ok"
         THEN [dep EXCEPT !.pc = "update active",
                          !.runs[dep.deployment_id] =
                             [@ EXCEPT !.attempts = @ + 1, !.deployed = "ok",
                                       !.endpoint_url = endpoint_url]]
         ELSE [dep EXCEPT !.pc = IF dep.runs[dep.deployment_id].attempts + 1 < DeployMaxAttempts
                                   THEN "deploy" ELSE "update error",
                          !.runs[dep.deployment_id] =
                             [@ EXCEPT !.attempts = @ + 1, !.deployed = outcome]]
  /\ UNCHANGED <<coreVars, ret, arima, fetch, tracker, svc>>

\* An attempt of update_deployment_status_activity that commits; the
\* workflow then returns, or re-raises after the write of 'error'.
DeployUpdateCommit ==
  /\ dep.pc \in {"update active", "update error"}
  /\ dep' =
       IF dep.pc = "update active"
         THEN [dep EXCEPT !.pc = "returned",
                          !.runs[dep.deployment_id].ended = "returned",
                          !.db = update_deployment_status(dep.db,
                                   UpdateDeploymentParams(dep.deployment_id, "active",
                                                          dep.runs[dep.deployment_id].endpoint_url))]
         ELSE [dep EXCEPT !.pc = "raised",
                          !.runs[dep.deployment_id].ended = "raised",
                          !.db = update_deployment_status(dep.db,
                                   UpdateDeploymentParams(dep.deployment_id, "error", NoUrl))]
  /\ UNCHANGED <<coreVars, ret, arima, fetch, tracker, svc>>

\* An attempt of update_deployment_status_activity that raises: rollback,
\* and the default retry policy schedules another attempt.
DeployUpdateRaise ==
  /\ dep.pc \in {"update active", "update error"}
  /\ dep.failures < MaxUpdateFailures
  /\ dep' = [dep EXCEPT !.failures = @ + 1]
  /\ UNCHANGED <<coreVars, ret, arima, fetch, tracker, svc>>

NextDeploy ==
  \/ \E deployment_id \in Deployments : DeployStart(deployment_id)
  \/ \E outcome \in {"ok"} \cup ActivityFailures, endpoint_url \in EndpointUrls :
       (outcome # "ok" => endpoint_url = <<"https", "a", "modal.run">>) /\ DeployActivity(outcome, endpoint_url)
  \/ DeployUpdateCommit
  \/ DeployUpdateRaise

\* The status activity is retried without limit, so a write is eventually
\* committed.
SpecDeploy == Init /\ [][NextDeploy]_vars /\ WF_vars(DeployUpdateCommit)

-----------------------------------------------------------------------------
(* Specification of the data fetching workflow *)

Symbols == {"AAPL", "BTCUSD"}
Frequencies == {"daily", "weekly"}

\* FetchDataWorkflow.run is started on one of the two workers.
FetchStart(worker, symbol, frequency) ==
  /\ fetch.pc \in {"idle", "returned", "raised"}
  /\ fetch.runs < MaxFetchRuns
  /\ fetch' = [fetch EXCEPT !.worker = worker, !.pc = "fetch_data_activity",
                            !.symbol = symbol, !.frequency = frequency,
                            !.runs = @ + 1, !.attempts = 0, !.failures = 0,
                            !.s3_key = NoKey]
  /\ UNCHANGED <<coreVars, ret, arima, dep, tracker, svc>>

\* One attempt of fetch_data_activity: it returns the S3 key, or fails;
\* after FetchMaxAttempts attempts the failure is raised in the workflow,
\* which re-raises it.
FetchDataActivity(outcome) ==
  /\ fetch.pc = "fetch_data_activity"
  /\ fetch.pc \in Registered(fetch.worker)
  /\ fetch.attempts < FetchMaxAttempts
  /\ fetch' =
       IF outcome = "ok"
         THEN [fetch EXCEPT !.attempts = @ + 1, !.s3_key = DatasetKey(fetch.symbol),
                            !.pc = "create_tiingo_fetch_record_activity"]
         ELSE [fetch EXCEPT !.attempts = @ + 1,
                            !.pc = IF fetch.attempts + 1 < FetchMaxAttempts
                                     THEN "fetch_data_activity" ELSE "raised"]
  /\ UNCHANGED <<coreVars, ret, arima, dep, tracker, svc>>

\* The worker takes the task of the database activity the workflow awaits.
\* A registered activity runs and, as assumed, succeeds; for an activity
\* type that is not registered the worker fails the task, and the default
\* retry policy schedules it again.
DbActivityTask ==
  /\ fetch.pc \in {"create_tiingo_fetch_record_activity", "create_dataset_record_activity"}
  /\ IF fetch.pc \in Registered(fetch.worker)
       THEN fetch' =
              IF fetch.pc = "create_tiingo_fetch_record_activity"
                THEN [fetch EXCEPT !.tiingo_fetches = @ + 1,
                                   !.pc = "create_dataset_record_activity"]
                ELSE [fetch EXCEPT !.pc = "returned",
                                   !.datasets = @ \cup
                                      {CreateDatasetRecordParams(fetch.symbol, fetch.frequency,
                                                                 fetch.s3_key, fetch.tiingo_fetches)}]
       ELSE /\ fetch.failures < MaxUpdateFailures
            /\ fetch' = [fetch EXCEPT !.failures = @ + 1]
  /\ UNCHANGED <<coreVars, ret, arima, dep, tracker, svc>>

NextFetch ==
  \/ \E worker \in Workers, symbol \in Symbols, frequency \in Frequencies :
       FetchStart(worker, symbol, frequency)
  \/ \E outcome \in {"ok"} \cup ActivityFailures : FetchDataActivity(outcome)
  \/ DbActivityTask

SpecFetch == Init /\ [][NextFetch]_vars /\ WF_vars(DbActivityTask)

----------------------------------------------------------------------------
(* Specification SpecTracker: record_activity calls, cleanups and clock
   advances on the ActivityTracker *)

\* What a tracker call reports: the entries it deleted, each with the
\* timestamp it held, and the time of the call.
TrackerVal(before, after) ==
  [kind |-> "tracker",
   removed |-> {<<e, before.activity_timestamps[e]>> :
                  e \in DOMAIN before.activity_timestamps \ DOMAIN after.activity_timestamps},
   at |-> before.now]

\* activity_tracker.record_activity(experiment_id)
RecordActivity(experiment_id) ==
  /\ \E after \in {record_activity(tracker, experiment_id)} :
       /\ tracker' = after
       /\ ret' = Ret("record_activity", 0, "", "ok", TrackerVal(tracker, after), {}, FALSE)
  /\ UNCHANGED <<coreVars, arima, dep, fetch, svc>>

\* activity_tracker._cleanup_old_entries()
CleanupOldEntries ==
  /\ \E after \in {cleanup_old_entries(tracker)} :
       /\ tracker' = after
       /\ ret' = Ret("cleanup", 0, "", "ok", TrackerVal(tracker, after), {}, FALSE)
  /\ UNCHANGED <<coreVars, arima, dep, fetch, svc>>

\* time.time() advances.
ClockAdvance ==
  /\ tracker.now + ClockStep <= MaxClock
  /\ tracker' = [tracker EXCEPT !.now = @ + ClockStep]
  /\ UNCHANGED <<coreVars, ret, arima, dep, fetch, svc>>

NextTracker ==
  \/ \E experiment_id \in Experiments : RecordActivity(experiment_id)
  \/ CleanupOldEntries
  \/ ClockAdvance

SpecTracker == Init /\ [][NextTracker]_vars

----------------------------------------------------------------------------
(* Specification SpecInference: experiments complete and GET
   /predict/{experiment_id} requests reach one warm container *)

ServedFamilies ==
  {"regression", "random_forest", "xgboost_time_series", "prophet", "arima", "lstm"}
ArtifactStates == {"intact", "unreadable", "deleted"}
DatasetRows == {0, 120}

\* A training run completed: the experiment row is 'completed' with the
\* artifact key, and the models bucket holds the artifact unless it was
\* deleted since.
ExperimentCompletes(experiment_id, family, artifact, dataset_rows) ==
  /\ svc.experiments[experiment_id].status = "pending"
  /\ LET key == ArtifactKey(experiment_id, IF family = "lstm" THEN ".pt" ELSE ".pkl") IN
       svc' = [svc EXCEPT
                 !.experiments[experiment_id] = ExperimentRow("completed", key, family, dataset_rows),
                 !.models_bucket =
                    IF artifact = "deleted" THEN @
                    ELSE [k \in DOMAIN @ \cup {key} |->
                            IF k = key THEN Artifact(family, artifact = "intact") ELSE @[k]]]
  /\ UNCHANGED <<coreVars, ret, arima, dep, fetch, tracker>>

\* GET /predict/{experiment_id}: the load_model dependency, then the body
\* of predict with its record_activity call.
Predict(experiment_id) ==
  \E l \in {load_model(svc, experiment_id)} :
    /\ svc' = [svc EXCEPT !.model_cache = l.cache]
    /\ IF l.status # "ok"
         THEN /\ ret' = Ret("predict", experiment_id, svc.experiments[experiment_id].modelName, l.status,
                            [kind |-> "predict", source |-> "none", next_prediction |-> NoVal,
                             hit |-> l.hit, accesses |-> l.accesses, loaded |-> FALSE],
                            {}, FALSE)
              /\ UNCHANGED tracker
         ELSE LET cached == l.cache[experiment_id]
                  p == predict(cached.m, DefaultConfig(cached.m.family),
                               svc.experiments[experiment_id].dataset_rows)
              IN /\ ret' = Ret("predict", experiment_id, cached.m.family, p.status,
                               [kind |-> "predict", source |-> p.source,
                                next_prediction |-> p.next_prediction,
                                hit |-> l.hit, accesses |-> l.accesses, loaded |-> cached.loaded],
                               {}, FALSE)
                 /\ tracker' = record_activity(tracker, experiment_id)
    /\ UNCHANGED <<coreVars, arima, dep, fetch>>

NextInference ==
  \/ \E experiment_id \in Experiments, family \in ServedFamilies,
        artifact \in ArtifactStates, dataset_rows \in DatasetRows :
       ExperimentCompletes(experiment_id, family, artifact, dataset_rows)
  \/ \E experiment_id \in Experiments : Predict(experiment_id)

SpecInference == Init /\ [][NextInference]_vars

----------------------------------------------------------------------------
(* Claims about the model lifecycle (specification Spec) *)

\* C1: inference() or forecast() on an instance that is still Uninitialized
\* (constructed, neither trained nor loaded) fails and returns no
\* predictions, for every family.
C1_UninitializedCallsFail ==
  (ret.op \in {"inference", "forecast"} /\ phase[ret.inst] = "Uninitialized")
    => ret.status # "ok"

\* C2: whenever train(data) returns normally, that call has written the
\* model artifact of the instance (model.pkl or model.pt) and, when the
\* instance has a scaler, scaler.pkl.
C2_TrainPersists ==
  (ret.op = "train" /\ ret.status = "ok")
    => /\ ModelPath(inst[ret.inst]) \in ret.wrote
       /\ inst[ret.inst].scaler # PyNone => ScalerPath(inst[ret.inst]) \in ret.wrote

\* C3: after a trained instance A saved its artifacts, a freshly constructed
\* instance B of the same family with the default configuration and the
\* same save_dir that load()s them answers every inference input as A did.
C3_RoundTrip ==
  (/\ ret.op = "load" /\ ret.status = "ok" /\ ret.restored
   /\ ret.val.was = "Uninitialized"
   /\ inst[ret.inst].cfg = "default"
   /\ <<inst[ret.inst].save_dir, inst[ret.inst].model_name>> \in DOMAIN saved)
    => \A x \in InputLens :
         InferenceResult(inst[ret.inst], ConfigOf(ret.inst), x)
           = saved[<<inst[ret.inst].save_dir, inst[ret.inst].model_name>>][x]

\* C4: load() of the LSTM (network-weights kind) fails with the
\* file-not-found error whenever model.pt is absent, and when it returns
\* normally the weights of the instance have been replaced by those stored
\* in model.pt.
C4_LstmLoadNeedsWeights ==
  (ret.op = "load" /\ inst[ret.inst].model_type = "pytorch")
    => /\ FileAt(fs, ModelPath(inst[ret.inst])) = Absent
            => (ret.status = "FileNotFoundError" /\ ~ret.restored)
       /\ ret.status = "ok"
            => /\ ret.restored
               /\ phase[ret.inst] = "Loaded"
               /\ FileAt(fs, ModelPath(inst[ret.inst])) # Absent
               /\ inst[ret.inst].model = FileAt(fs, ModelPath(inst[ret.inst]))

\* An LSTM instance whose load() found no model.pt: the call raised and the
\* instance keeps the weights of its constructor.
C4_Witness ==
  /\ ret.op = "load" /\ ret.name = "lstm"
  /\ ret.status = "FileNotFoundError"
  /\ inst[ret.inst].model = Rand
  /\ phase[ret.inst] = "Uninitialized"

\* C5: load() of a native-object family never returns normally leaving the
\* instance unloaded: a normal return implies state Loaded.
C5_PklLoadReturnsLoaded ==
  (ret.op = "load" /\ inst[ret.inst].model_type = "pkl" /\ ret.status = "ok")
    => phase[ret.inst] = "Loaded"

----------------------------------------------------------------------------
(* Claims about run_training (specification SpecTrainer) *)

\* C6: whenever run_training(model_name, data, output_dir) returns normally,
\* model_artifact_path is <output_dir>/<model_name>/model.pt for the
\* network-weights kind and <output_dir>/<model_name>/model.pkl otherwise,
\* and that file exists; scaler_artifact_path is null or the existing file
\* <output_dir>/<model_name>/scaler.pkl; when the post-check fails the call
\* the file is indeed missing; and the path is the one save() of the created
\* instance writes and load() of an instance of that family with that base
\* directory reads.
C6_RunTrainingPaths ==
  /\ (ret.op = "run_training" /\ ret.status = "ok") =>
       LET v == ret.val
           expected == <<v.output_dir, ret.name,
                         IF v.model_type = "pytorch" THEN "model.pt" ELSE "model.pkl">>
       IN /\ v.model_type \in {"pytorch", "pkl"}
          /\ v.model_type = "pytorch" <=> ret.name = "lstm"
          /\ v.model_artifact_path = expected
          /\ expected \in DOMAIN fs
          /\ v.scaler_artifact_path # NoPath =>
               /\ v.scaler_artifact_path = <<v.output_dir, ret.name, "scaler.pkl">>
               /\ v.scaler_artifact_path \in DOMAIN fs
          /\ v.model_artifact_path \in v.save_writes
          /\ \A i \in Insts :
               (Live(i) /\ inst[i].model_name = ret.name /\ inst[i].save_dir = v.output_dir)
                 => ModelPath(inst[i]) = v.model_artifact_path
  /\ (ret.op = "run_training" /\ ret.status = "FileNotFoundError") =>
       ret.val.model_artifact_path \notin DOMAIN fs
  /\ (ret.op = "load" /\ ret.restored) =>
       /\ ModelPath(inst[ret.inst]) \in DOMAIN fs
       /\ inst[ret.inst].model = fs[ModelPath(inst[ret.inst])]

\* run_training returned the paths of an LSTM with its scaler.
C6_Witness ==
  /\ ret.op = "run_training" /\ ret.status = "ok" /\ ret.name = "lstm"
  /\ ret.val.model_artifact_path = <<"out", "lstm", "model.pt">>
  /\ ret.val.scaler_artifact_path = <<"out", "lstm", "scaler.pkl">>
  /\ ret.val.model_artifact_path \in ret.wrote

----------------------------------------------------------------------------
(* Claims about the factories (specification SpecFactory) *)

----------------------------------------------------------------------------
(* Claims about instances of one process (specification SpecShared) *)

\* C9: a configuration is owned by one instance: train() on one instance,
\* its grid search writing best_params included, never changes the
\* configuration another instance of the process observes.
C9_ConfigExclusive ==
  [][\A j \in Insts :
       (Live(j) /\ ret'.op = "train" /\ ret'.inst # j /\ inst'[j] = inst[j])
         => ConfigOf(j)' = ConfigOf(j)]_vars

----------------------------------------------------------------------------
(* Claims about preprocess_data (specification SpecPre) *)

\* C10: when preprocess_data returns, its output is exactly the input rows
\* with no null in open, high, low, close, volume, in their original order;
\* each of the five columns is numeric; the caller's table is as it was;
\* and preprocessing the output again returns the output.
C10_PreprocessExact ==
  ppOut.first.status = "ok" =>
    LET arg == ppOut.arg
        out == ppOut.first.out
        Clean(r) == \A col \in {"open", "high", "low", "close", "volume"} : r.cells[col] # "null"
    IN /\ \A k \in 1..Len(out.rows) :
            /\ Clean(out.rows[k])
            /\ \E j \in 1..Len(arg.rows) : arg.rows[j] = out.rows[k]
       /\ \A j \in 1..Len(arg.rows) :
            Clean(arg.rows[j]) => \E k \in 1..Len(out.rows) : out.rows[k] = arg.rows[j]
       /\ \A k1, k2 \in 1..Len(out.rows) : k1 < k2 => out.rows[k1].id < out.rows[k2].id
       /\ out.cols = arg.cols
       /\ \A col \in {"open", "high", "low", "close", "volume"} :
            /\ out.numeric[col]
            /\ \A k \in 1..Len(out.rows) : out.rows[k].cells[col] = "num"
       /\ ppIn = arg
       /\ ppOut.second.status = "ok"
       /\ ppOut.second.out = out

\* A table was cleaned whose first row lacks only the date (kept) and whose
\* second row lacks close (dropped).
C10_Witness ==
  /\ ppOut.first.status = "ok"
  /\ Len(ppOut.arg.rows) = 2
  /\ ppOut.arg.rows[1].cells["date"] = "null"
  /\ ppOut.arg.rows[2].cells["close"] = "null"
  /\ Len(ppOut.first.out.rows) = 1
  /\ ppOut.first.out.rows[1].id = 1
  /\ Len(ppIn.rows) = 2

----------------------------------------------------------------------------
(* Claims about the lag-based families (specification SpecLag) *)

\* C11: for every table and every n_lags >= 0, create_lag_features(data,
\* "close", n_lags) returns exactly len(data) - n_lags rows in the input's
\* order, and in every returned row lag_k is the close of the row k
\* positions earlier in the original series.
C11_LagFeatures ==
  ret.op = "create_lag_features" =>
    LET data == ret.val.data
        n == ret.val.n_lags
        out == ret.val.out
    IN /\ Len(out) = Len(data) - n
       /\ \A a, b \in 1..Len(out) : a < b => out[a].pos < out[b].pos
       /\ \A a \in 1..Len(out) : \A k \in 1..n :
            /\ out[a].pos - k >= 1
            /\ out[a].lag[k] = data[out[a].pos - k].close

\* C12: an instance of a lag-based family that is Trained or Loaded fails
\* inference on an input of at most n_lags rows with the insufficient-data
\* error before any prediction is made, and on an input of exactly
\* n_lags + 1 rows succeeds with exactly one non-missing prediction, at the
\* last input row.
C12_LagInferenceThreshold ==
  (/\ ret.op = "inference"
   /\ ret.val.kind = "frame"
   /\ phase[ret.inst] \in {"Trained", "Loaded"}) =>
    LET input_data == ret.val.input_data
        n == ret.val.n_lags
        result == ret.val.result
    IN /\ Len(input_data) <= n => (ret.status = "ValueError" /\ ~ret.val.predicted)
       /\ Len(input_data) = n + 1 =>
            /\ ret.status = "ok"
            /\ Len(result) = n + 1
            /\ \A k \in 1..Len(result) :
                 (result[k].prediction.kind = "number") <=> (k = n + 1)

\* C13: for an input of N >= n_lags + 1 rows, inference of a lag-based
\* instance that is Trained or Loaded returns exactly N rows carrying the
\* input's index in the input's order, the first n_lags with the missing
\* marker and every later one with a number computed from that row's
\* features and its n_lags preceding close values; no row is dropped or
\* duplicated.
C13_LagInferenceAligned ==
  (/\ ret.op = "inference"
   /\ ret.val.kind = "frame"
   /\ phase[ret.inst] \in {"Trained", "Loaded"}
   /\ Len(ret.val.input_data) >= ret.val.n_lags + 1) =>
    LET input_data == ret.val.input_data
        n == ret.val.n_lags
        result == ret.val.result
    IN /\ ret.status = "ok"
       /\ Len(result) = Len(input_data)
       /\ \A k \in 1..Len(result) :
            /\ result[k].id = input_data[k].id
            /\ IF k <= n
                 THEN result[k].prediction = NoPrediction
                 ELSE /\ result[k].prediction.kind = "number"
                      /\ result[k].prediction.from.pos = k
                      /\ \A j \in 1..n :
                           result[k].prediction.from.lag[j] = input_data[k - j].close

----------------------------------------------------------------------------
(* Further claims about the model lifecycle (specification Spec) *)

\* C14: forecast(steps) of each of the six non-forecasting families returns
\* steps rows that each carry the explicit "unsupported" marker, never a
\* number that could be read as a price.
C14_ForecastUnsupported ==
  (ret.op = "forecast" /\ ret.name \in NoForecastFamilies) =>
    /\ ret.status = "ok"
    /\ ret.val.kind = "placeholder"
    /\ ret.val.npred \in Steps
    /\ ret.val.marker = "N/A"

----------------------------------------------------------------------------
(* Claims about the training workflow (specification SpecWorkflow) *)

----------------------------------------------------------------------------
(* Claims about LSTM training (specification Spec) *)

\* C16: LSTM train runs the epochs in order and halts at the first epoch at
\* which the validation loss has not strictly improved on the best so far
\* for early_stopping_patience consecutive epochs (the counter restarting at
\* every improving epoch), or after config.epochs epochs; when it returns,
\* the persisted checkpoint holds the weights of the epoch with the lowest
\* validation loss among the epochs run, not those of the last epoch.
C16_EarlyStopping ==
  (/\ ret.op = "train"
   /\ ret.name = "lstm"
   /\ ret.status = "ok"
   /\ ConfigOf(ret.inst).epochs >= 1) =>
    LET c == ConfigOf(ret.inst)
        m == inst[ret.inst]
        ran == m.model.epoch
        loss == [e \in 1..c.epochs |-> ValLoss(ret.val.scen, e)]
        best == [n \in 0..c.epochs |->
                   LET numeric == {loss[e] : e \in {x \in 1..n : loss[x] # NaN}}
                   IN IF numeric = {} THEN Infinity
                      ELSE CHOOSE v \in numeric : \A w \in numeric : v <= w]
        stalled == [e \in 1..c.epochs |->
                      /\ e >= c.early_stopping_patience
                      /\ \A j \in (e - c.early_stopping_patience + 1)..e :
                           ~(loss[j] # NaN /\ loss[j] < best[j - 1])]
        checkpoint == FileAt(fs, ModelPath(m))
    IN /\ ran \in 1..c.epochs
       /\ \A e \in 1..(ran - 1) : ~stalled[e]
       /\ ran < c.epochs => stalled[ran]
       /\ best[ran] # Infinity =>
            /\ checkpoint.kind = "fit"
            /\ checkpoint.data = ret.val.data
            /\ checkpoint.epoch \in 1..ran
            /\ loss[checkpoint.epoch] = best[ran]

C16_Witness ==
  /\ ret.op = "train"
  /\ ret.name = "lstm"
  /\ ret.status = "ok"
  /\ ret.val.scen.kind = "plateau"
  /\ ConfigOf(ret.inst).epochs = 100
  /\ inst[ret.inst].model.epoch = 12
  /\ FileAt(fs, ModelPath(inst[ret.inst])).epoch = 2

\* C17: when train returns, the Trained instance and the artifacts it
\* persisted are equivalent for serving, for every family: a fresh instance
\* that load()s the artifacts train wrote (no further save()) answers
\* inference and forecast as the instance just trained does; the estimator
\* and scaler in memory at the end of train are the ones persisted.
C17_TrainedEqualsPersisted ==
  (ret.op = "train" /\ ret.status = "ok") =>
    LET m == inst[ret.inst]
        c == ConfigOf(ret.inst)
        fresh == LoadResult([NewModel(m.family, m.cfg, c) EXCEPT !.save_dir = m.save_dir], fs)
    IN /\ fresh.status = "ok"
       /\ fresh.restored
       /\ fresh.m.model = m.model
       /\ fresh.m.scaler = m.scaler
       /\ \A rows \in InputLens :
            /\ InferenceResult(fresh.m, c, rows) = InferenceResult(m, c, rows)
            /\ \A steps \in Steps :
                 ForecastResult(fresh.m, c, steps, rows) = ForecastResult(m, c, steps, rows)

----------------------------------------------------------------------------
(* Claims about the LSTM windows (specification SpecLstm) *)

\* C18: LstmModel.forecast and LstmModel.inference fail with the
\* insufficient-data error, before computing any prediction, exactly when
\* the (possibly resampled) input has fewer rows than the configured
\* time_steps; when inference succeeds it returns len(input) - time_steps
\* rows, one per window, the k-th dated with the input date at position
\* time_steps + k.
C18_LstmInsufficientData ==
  (/\ ret.op \in {"inference", "forecast"}
   /\ ret.val.kind = "window"
   /\ phase[ret.inst] \in {"Trained", "Loaded"}) =>
    LET data_copy == Resampled(ret.val.input_data)
        time_steps == ret.val.time_steps
        rows == ret.val.rows
    IN /\ (ret.status = "ValueError" /\ ~ret.val.predicted) <=> (data_copy.len < time_steps)
       /\ (ret.op = "inference" /\ ret.status = "ok") =>
            /\ Len(rows) = data_copy.len - time_steps
            /\ \A k \in 1..Len(rows) :
                 /\ rows[k].date = DateAt(data_copy, time_steps + k)
                 /\ rows[k].window = [first |-> k, last |-> k + time_steps - 1]

-----------------------------------------------------------------------------
(* Claims about the ARIMA grid search (specification Spec) *)

\* C20: after an ARIMA train whose grid search ran, config.best_params is a
\* candidate whose fit succeeded, with the least AIC among the fitted
\* candidates and the first such in iteration order, and a model that was
\* fitted has exactly that order.
C20_GridSearch ==
  (ret.op = "train" /\ ret.name = "arima" /\ ret.status # "ValueError") =>
    LET scen == ret.val.scen
        best_params == ConfigOf(ret.inst).best_params
        fitted == {k \in 1..Len(Candidates) : AicOf(scen, k) # FitFails}
    IN /\ \E k \in fitted :
            /\ Candidates[k] = best_params
            /\ \A j \in fitted : AicOf(scen, k) <= AicOf(scen, j)
            /\ \A j \in fitted : j < k => AicOf(scen, j) > AicOf(scen, k)
       /\ ret.status = "ok" =>
            inst[ret.inst].model = FittedOrder(ret.val.data, best_params)

-----------------------------------------------------------------------------
(* Claims about ARIMA differencing and negative prices (specification SpecArima) *)

\* C21: train differences the series at most once, exactly when the ADF
\* p-value exceeds 0.05; after a train that differenced, best_params[1] > 0;
\* and inference reverses the differencing exactly when the results it
\* holds were fitted on a differenced series.
C21_DifferencingReversed ==
  /\ (ret.op = "train" /\ ret.val.kind = "arima_train" /\ ret.val.p_value # AdfRaises) =>
       /\ ret.val.differenced = (IF ret.val.p_value > AdfThreshold THEN 1 ELSE 0)
       /\ (ret.status = "ok" /\ ret.val.differenced = 1) => arima.best_params[2] > 0
  /\ (ret.op = "inference" /\ ret.val.kind = "arima_pred" /\ ret.status = "ok") =>
       (ret.val.undiff <=> arima.model.differenced)

\* C22: no value that inference or forecast of ArimaModel returns is
\* negative (a negative prediction is returned as the missing marker).
C22_NoNegativePrice ==
  (ret.op \in {"inference", "forecast"} /\ ret.val.kind = "arima_pred" /\ ret.status = "ok") =>
    \A k \in 1..Len(ret.val.values) : ret.val.values[k] = NaNPrice \/ ret.val.values[k] >= 0

-----------------------------------------------------------------------------
(* Claims about the drawdown metrics (specification SpecMetrics) *)

\* C23: MaximumDrawdownMetric.calculate returns the least value of
\* price_i / max(price_0..price_i) - 1, the running peak including the
\* first observation; it agrees with CalmarRatioMetric.calculate_max_drawdown
\* and lies in [-1, 0].
C23_MaxDrawdown ==
  (ret.op = "calculate" /\ ret.name = "maximum_drawdown") =>
    LET close == ret.val.close
        out == ret.val.out
        Peak(i) == MaxOf({close[j] : j \in 1..i})
        decline == {<<close[i] - Peak(i), Peak(i)>> : i \in 1..Len(close)}
    IN /\ ~IsNaN(out)
       /\ \E d \in decline : ~RLess(d, out) /\ ~RLess(out, d)
       /\ \A d \in decline : ~RLess(d, out)
       /\ LET calmar == calculate_max_drawdown(close)
          IN ~RLess(calmar, out) /\ ~RLess(out, calmar) /\ ~IsNaN(calmar)
       /\ ~RLess(out, <<0 - 1, 1>>) /\ ~RLess(<<0, 1>>, out)

\* C24: MddDurationMetric.calculate returns the length of the longest run of
\* consecutive observations strictly below the running peak of the series
\* so far (the peak including the first observation), 0 when there is none.
C24_MddDuration ==
  (ret.op = "calculate" /\ ret.name = "mdd_duration") =>
    LET close == ret.val.close
        below == {i \in 1..Len(close) : \E j \in 1..i : close[j] > close[i]}
        runs == {k \in 0..Len(close) :
                   \E first \in 1..(Len(close) + 1) : \A i \in first..(first + k - 1) : i \in below}
    IN ret.val.out = MaxOf(runs)

-----------------------------------------------------------------------------
(* Claims about the training workflow when a status update fails (specification SpecWorkflowCancel) *)

\* C27: a run of TrainModelWorkflow that issued the update to 'completed'
\* (its training succeeded) never writes 'failed' for that experiment.
C27_NeverBothStatuses ==
  \A e \in Experiments :
    wf.runs[e].trained = "ok" =>
      /\ wf.db[e].status # "failed"
      /\ wf.experiment_id = e => wf.pc # "update failed"

-----------------------------------------------------------------------------
(* Claims about the deployment workflow (specification SpecDeploy) *)

-----------------------------------------------------------------------------
(* Claims about the data fetching workflow (specification SpecFetch) *)

\* C26: every activity a run of FetchDataWorkflow schedules is one the
\* worker it runs on has registered (so that, the fetch having succeeded,
\* the run goes on to create the dataset record and to return).
C26_FetchActivitiesRegistered ==
  fetch.pc \in {"idle", "returned", "raised"} \/ fetch.pc \in Registered(fetch.worker)

----------------------------------------------------------------------------
(* Claims about the activity tracker (specification SpecTracker) *)

\* C30: after any sequence of record_activity calls, cleanups and clock
\* advances, has_recent_activity(e) is true exactly when the most recent
\* record_activity(e) is less than activity_window seconds old, and
\* get_active_experiments() is the set of such e; a cleanup deletes only
\* entries older than activity_window; the keys of _activity_timestamps
\* are the members of _recent_requests.
C30_RecentActivity ==
  /\ \A e \in Experiments :
       has_recent_activity(tracker, e) <=>
         (tracker.recorded[e] # Never /\ tracker.now - tracker.recorded[e] < ActivityWindow)
  /\ get_active_experiments(tracker) =
       {e \in Experiments :
          tracker.recorded[e] # Never /\ tracker.now - tracker.recorded[e] < ActivityWindow}
  /\ (ret.val.kind = "tracker") =>
       \A r \in ret.val.removed : ret.val.at - r[2] > ActivityWindow
  /\ DOMAIN tracker.activity_timestamps = tracker.recent_requests

\* A cleanup deleted the entry of an experiment whose last request is older
\* than the window while another experiment is still active.
C30_Witness ==
  /\ ret.op = "cleanup"
  /\ ret.val.removed # {}
  /\ get_active_experiments(tracker) # {}
  /\ \E e \in Experiments : tracker.recorded[e] # Never /\ ~has_recent_activity(tracker, e)

----------------------------------------------------------------------------
(* Claims about the inference service (specification SpecInference) *)

\* C28: model_cache holds only instances whose artifacts were loaded
\* (state Loaded): a request whose download or load failed ended with an
\* HTTP error and added no cache entry, no request is served from an
\* instance that was not loaded, and a cache hit makes no database or
\* storage access.
C28_CacheHoldsLoaded ==
  /\ \A e \in DOMAIN svc.model_cache : svc.model_cache[e].loaded
  /\ (ret.op = "predict" /\ ret.status = "200") => ret.val.loaded
  /\ (ret.op = "predict" /\ ret.val.hit) => ret.val.accesses = 0

\* C29: a successful GET /predict/{experiment_id} for a family whose
\* forecast() is unsupported returns a value that model.inference computed
\* on the recent training rows, never the placeholder of forecast().
C29_NoPlaceholderPrediction ==
  (ret.op = "predict" /\ ret.status = "200" /\ ret.name \in NoForecastFamilies) =>
    (ret.val.source = "inference" /\ ret.val.next_prediction.kind = "pred")

================================================================
